---------------------------- MODULE Spec2Model ----------------------------
(***************************************************************************)
(* Model of the advisory core of snyk_ai:                                  *)
(*   - utils/markdown.py : the block tokenizer (parse_markdown_document)   *)
(*   - utils/text.py     : split_into_sentences, format_table_block        *)
(*   - advisories.py     : _validate_structure, _extract_sections,         *)
(*                         Section.get_chunks, Section.to_text,            *)
(*                         _Advisory.get_chunks, Advisories.init_vectordb  *)
(* Python list indices are 0-based; the sequences here are 1-based, so     *)
(* Python blocks[k] is blocks[k+1] below and Python blocks[-1] is          *)
(* blocks[Len(blocks)].                                                    *)
(***************************************************************************)
EXTENDS Integers, Sequences, FiniteSets, TLC

VARIABLES
    pc,        \* position of the pipeline
    filename,  \* name of the advisory file being loaded
    lines,     \* the document's lines (tokenizer input)
    i,         \* the tokenizer's line cursor (0-based, as in the code)
    blocks,    \* the block list (tokenizer output, validator/extractor input)
    err,       \* the error raised, or NoError
    sections,  \* the Section list built by _extract_sections
    advisories,\* Advisories._advisories: the loaded advisories, in path order
    model,     \* the model handed to get_chunks / init_vectordb, or NoModel
    chunks,    \* the chunk list returned by the last get_chunks
    calls,     \* history: the helper calls made by the last operation, in order
    index,     \* the entries of the vector collection, in insertion order
    arg,       \* the arguments of the last operation
    ret,       \* the value returned by the last pure function or rendering
    collection, \* Advisories._collection: "none" until init_vectordb opens it
    ops,       \* history: the operations called on the object, in order
    history    \* DatabaseRag.query: the history lines of the running query

vars == <<pc, filename, lines, i, blocks, err, sections,
          advisories, model, chunks, calls, index, arg, ret,
          collection, ops, history>>
tokVars == <<lines, i>>
advVars == <<filename, sections>>
chunkVars == <<advisories, model, chunks, calls, index, arg, ret,
               collection, ops, history>>

\* nothing loaded, nothing chunked, nothing indexed
NoChunking ==
    /\ advisories = <<>>
    /\ model = "none"
    /\ chunks = <<>>
    /\ calls = <<>>
    /\ index = <<>>
    /\ arg = <<>>
    /\ ret = <<>>
    /\ collection = "none"
    /\ ops = <<>>
    /\ history = <<>>

-----------------------------------------------------------------------------
(* Bounds of the model *)

\* longest free-form block sequence handed to the validator
MaxFree == 4
\* longest run of blocks between the executive summary and the Credits header
MaxMid == 4

-----------------------------------------------------------------------------
(* Blocks as the validator and the extractor see them: type and content *)

HEADER == "header"
PARAGRAPH == "paragraph"
CODE_BLOCK == "code_block"
TABLE == "table"
LIST_ITEM == "list_item"

BlockType == {HEADER, PARAGRAPH, CODE_BLOCK, TABLE, LIST_ITEM}

NoError == [kind |-> "none", file |-> "", text |-> ""]

TitleText == "Security Advisory: Example Vuln"

\* str.startswith("Security Advisory: ") over the contents the model draws from
StartsWithAdvisoryPrefix(content) == content \in {TitleText}

Blk(t, c) == [type |-> t, content |-> c]

HTitle == Blk(HEADER, TitleText)
HSummary == Blk(HEADER, "Executive Summary")
HRefs == Blk(HEADER, "References")
HCredits == Blk(HEADER, "Credits")
HDetails == Blk(HEADER, "Details")
Para == Blk(PARAGRAPH, "Some text.")
Item == Blk(LIST_ITEM, "NVD entry")
Code == Blk(CODE_BLOCK, "x = 1")
Tbl == Blk(TABLE, "|a|b|")

BlockUniverse ==
    {HTitle, HSummary, HRefs, HCredits, HDetails, Para, Item, Code, Tbl}

Filenames == {"adv1.md", "adv2.md"}

SeqsUpTo(S, n) == UNION {[1..k -> S] : k \in 0..n}

\* the blocks drawn for the body of a document: headers of three contents, a
\* list item, and two kinds of block that are neither
MidUniverse == {HRefs, HCredits, HDetails, Para, Item, Code}

\* every short sequence, and every sequence that has the template's fixed
\* blocks in place with anything at Python index 1 and a body in between
FreeDocs == SeqsUpTo(BlockUniverse, MaxFree)
FramedDocs ==
    {<<HTitle, b1, HSummary, Para>> \o mid \o <<HCredits, Para>> :
        b1 \in BlockUniverse, mid \in SeqsUpTo(MidUniverse, MaxMid)}
Docs == FreeDocs \cup FramedDocs

-----------------------------------------------------------------------------
(* advisories.py: _validate_structure *)

ValueError(fn, text) == [kind |-> "ValueError", file |-> fn, text |-> text]

IsReferencesHeader(b) == b.type = HEADER /\ b.content = "References"

\* for i in range(len(blocks) - 3, -1, -1): ... break; 0 stands for None
RECURSIVE FindReferences(_, _)
FindReferences(bs, k) ==
    IF k < 1 THEN 0
    ELSE IF IsReferencesHeader(bs[k]) THEN k
    ELSE FindReferences(bs, k - 1)

ValidateStructure(fn, bs) ==
    LET n == Len(bs) IN
    IF n < 4 THEN ValueError(fn, "Advisory too short")
    ELSE IF bs[1].type # HEADER
        THEN ValueError(fn, "First block must be a header")
    ELSE IF ~StartsWithAdvisoryPrefix(bs[1].content)
        THEN ValueError(fn, "First header must start with 'Security Advisory: '")
    ELSE IF bs[3].type # HEADER \/ bs[3].content # "Executive Summary"
        THEN ValueError(fn, "blocks[2] must be 'Executive Summary' header")
    ELSE IF bs[4].type # PARAGRAPH
        THEN ValueError(fn, "blocks[3] must be executive summary paragraph")
    ELSE IF bs[n].type # PARAGRAPH
        THEN ValueError(fn, "Last block must be a paragraph (Credits content)")
    ELSE IF bs[n-1].type # HEADER \/ bs[n-1].content # "Credits"
        THEN ValueError(fn, "Second-to-last block must be 'Credits' header")
    ELSE LET references_idx == FindReferences(bs, n - 2) IN
         IF references_idx = 0
            THEN ValueError(fn, "Missing 'References' header")
         ELSE IF ~(\E k \in (references_idx + 1)..(n - 2) : bs[k].type = LIST_ITEM)
            THEN ValueError(fn, "'References' section must contain list items")
         ELSE NoError

-----------------------------------------------------------------------------
(* advisories.py: _extract_sections.  A Section holds references to blocks: *)
(* here the (1-based) index of its header and the indices of its blocks;   *)
(* header 0 stands for None.                                               *)

NoSection == [header |-> 0, blocks |-> <<>>, open |-> FALSE]

\* mutant: the Credits section taken one block too early
CreditsSection_OneEarly(bs) == [header |-> Len(bs) - 2, blocks |-> <<Len(bs) - 1>>]

\* credits_section = Section(header=blocks[-2], blocks=[blocks[-1]])
CreditsSection(bs) == [header |-> Len(bs) - 1, blocks |-> <<Len(bs)>>]

\* mutant: the body runs up to the Credits header, References included
ReferencesIdx_AtCredits(bs) == Len(bs) - 1

\* the while loop of lines 333-338; the result is the 1-based index of the
\* References header, 0 when the loop ran out (Python references_idx = -1)
ReferencesIdx(bs) == FindReferences(bs, Len(bs) - 2)

\* number of blocks in the Python slice blocks[:references_idx]
SliceLen(bs, r) == IF r = 0 THEN Len(bs) - 1 ELSE r - 1

\* the for loop of lines 345-355 over bs[1..n], from position k
RECURSIVE SectionLoop(_, _, _, _, _, _)
SectionLoop(bs, k, n, secs, cur, header) ==
    IF k > n THEN [sections |-> secs, current |-> cur]
    ELSE IF bs[k].type = HEADER
        THEN SectionLoop(bs, k + 1, n,
                         IF cur.open
                            THEN Append(secs, [header |-> cur.header, blocks |-> cur.blocks])
                            ELSE secs,
                         NoSection, k)
    ELSE IF ~cur.open
        THEN SectionLoop(bs, k + 1, n, secs,
                         [header |-> header, blocks |-> <<k>>, open |-> TRUE], header)
    ELSE SectionLoop(bs, k + 1, n, secs,
                     [cur EXCEPT !.blocks = Append(@, k)], header)

ExtractSections(bs) ==
    LET credits_section == CreditsSection(bs)
        r == ReferencesIdx(bs)
        res == SectionLoop(bs, 1, SliceLen(bs, r), <<>>, NoSection, 0)
        secs == IF res.current.open
                   THEN Append(res.sections,
                               [header |-> res.current.header,
                                blocks |-> res.current.blocks])
                   ELSE res.sections
    IN Append(secs, credits_section)

-----------------------------------------------------------------------------
(* Advisories._parse_advisory: validate, then extract *)

InitAdvisory ==
    /\ pc = "parsed"
    /\ filename \in Filenames
    /\ blocks \in Docs
    /\ err = NoError
    /\ sections = <<>>
    /\ lines = <<>>
    /\ i = 0
    /\ NoChunking

Validate ==
    /\ pc = "parsed"
    /\ err' = ValidateStructure(filename, blocks)
    /\ pc' = IF err' = NoError THEN "validated" ELSE "rejected"
    /\ UNCHANGED <<filename, blocks, sections, tokVars, chunkVars>>

Extract ==
    /\ pc = "validated"
    /\ sections' = ExtractSections(blocks)
    /\ pc' = "extracted"
    /\ UNCHANGED <<filename, blocks, err, tokVars, chunkVars>>

NextAdvisory == Validate \/ Extract

SpecAdvisory == InitAdvisory /\ [][NextAdvisory]_vars

-----------------------------------------------------------------------------
(* Properties of _validate_structure and _extract_sections *)

Accepted == pc \in {"validated", "extracted"}

Max(S) == CHOOSE x \in S : \A y \in S : y <= x

\* the References header a backward scan from Python index len-3 meets first
LastReferences(bs) ==
    Max({k \in 1..(Len(bs) - 2) : IsReferencesHeader(bs[k])} \cup {0})

RECURSIVE Flatten(_)
Flatten(secs) ==
    IF secs = <<>> THEN <<>>
    ELSE <<Head(secs).header>> \o Head(secs).blocks \o Flatten(Tail(secs))

Upto(n) == [k \in 1..n |-> k]

\* C1: for a validated document the sections' headers and blocks, concatenated
\* in order, are exactly blocks[0..r-1] followed by the last two blocks, r
\* being the References header: every header before r heads a section, and no
\* block before r is lost or duplicated.
C1_PartitionComplete ==
    pc = "extracted" =>
        Flatten(sections) =
            Upto(LastReferences(blocks) - 1) \o <<Len(blocks) - 1, Len(blocks)>>

\* C2: for a validated document there are at least two sections, section 0 is
\* headed by blocks[0] (the title) and section 1 by the "Executive Summary"
\* header, whatever blocks[1] is.
C2_TitleThenSummary ==
    pc = "extracted" =>
        /\ Len(sections) >= 2
        /\ sections[1].header = 1
        /\ sections[2].header = 3
        /\ blocks[3].content = "Executive Summary"

\* C3: a document is accepted only if the first Header met scanning backward
\* from Python index len-3 (passing over the blocks that are not headers) has
\* content "References".
C3_FirstHeaderBackwardIsReferences ==
    Accepted =>
        LET hs == {k \in 1..(Len(blocks) - 2) : blocks[k].type = HEADER}
        IN hs # {} /\ blocks[Max(hs)].content = "References"

\* C4: for a validated document neither the References header found by the
\* backward scan nor any block from it up to the Credits header is the header
\* of a section or in a section's block list.
C4_ReferencesElided ==
    pc = "extracted" =>
        \A s \in 1..Len(sections) :
            \A k \in LastReferences(blocks)..(Len(blocks) - 2) :
                /\ sections[s].header # k
                /\ \A j \in 1..Len(sections[s].blocks) : sections[s].blocks[j] # k

C4_Witness ==
    /\ pc = "extracted"
    /\ Len(sections) >= 3
    /\ LastReferences(blocks) + 2 <= Len(blocks) - 2

\* C5 as stated: exactly one section has a header whose content is "Credits";
\* it is the last one, headed by blocks[-2] and holding [blocks[-1]].
C5_OneCreditsByContent ==
    pc = "extracted" =>
        /\ Cardinality({s \in 1..Len(sections) :
                            blocks[sections[s].header].content = "Credits"}) = 1
        /\ sections[Len(sections)] =
                [header |-> Len(blocks) - 1, blocks |-> <<Len(blocks)>>]

\* C5 amended: the last section is the Credits section, headed by blocks[-2]
\* (content "Credits") and holding exactly [blocks[-1]]; it is the only
\* section that has blocks[-2] as header or blocks[-1] among its blocks. (An
\* earlier section may have a header with the same content.)
C5_CreditsSectionLast ==
    pc = "extracted" =>
        LET n == Len(blocks)
            m == Len(sections)
        IN /\ m >= 1
           /\ sections[m] = [header |-> n - 1, blocks |-> <<n>>]
           /\ blocks[sections[m].header].content = "Credits"
           /\ \A s \in 1..(m - 1) :
                /\ sections[s].header # n - 1
                /\ \A j \in 1..Len(sections[s].blocks) :
                        sections[s].blocks[j] \notin {n - 1, n}

C5_Witness ==
    /\ pc = "extracted"
    /\ Cardinality({s \in 1..Len(sections) :
                        blocks[sections[s].header].content = "Credits"}) = 2

\* The template of the advisory document, rule by rule
RuleTooShort(bs) == Len(bs) < 4
RuleBadTitle(bs) ==
    ~(bs[1].type = HEADER /\ StartsWithAdvisoryPrefix(bs[1].content))
RuleNoSummary(bs) ==
    ~(bs[3] = Blk(HEADER, "Executive Summary") /\ bs[4].type = PARAGRAPH)
RuleNoCredits(bs) ==
    ~(bs[Len(bs)].type = PARAGRAPH /\ bs[Len(bs) - 1] = Blk(HEADER, "Credits"))
RuleNoReferences(bs) ==
    LET hs == {k \in 1..(Len(bs) - 2) : bs[k].type = HEADER}
    IN hs = {} \/ bs[Max(hs)].content # "References"
RuleEmptyReferences(bs) ==
    LET hs == {k \in 1..(Len(bs) - 2) : bs[k].type = HEADER}
    IN hs # {} /\ ~(\E k \in (Max(hs) + 1)..(Len(bs) - 2) : bs[k].type = LIST_ITEM)

ViolatedRules(bs) ==
    IF RuleTooShort(bs) THEN {"too-short"}
    ELSE {r \in {"bad-title-prefix", "missing-executive-summary", "missing-credits",
                 "missing-references", "empty-references"} :
            \/ r = "bad-title-prefix" /\ RuleBadTitle(bs)
            \/ r = "missing-executive-summary" /\ RuleNoSummary(bs)
            \/ r = "missing-credits" /\ RuleNoCredits(bs)
            \/ r = "missing-references" /\ RuleNoReferences(bs)
            \/ r = "empty-references" /\ RuleEmptyReferences(bs)}

RuleOfMessage(text) ==
    CASE text = "Advisory too short" -> "too-short"
      [] text \in {"First block must be a header",
                   "First header must start with 'Security Advisory: '"}
            -> "bad-title-prefix"
      [] text \in {"blocks[2] must be 'Executive Summary' header",
                   "blocks[3] must be executive summary paragraph"}
            -> "missing-executive-summary"
      [] text \in {"Last block must be a paragraph (Credits content)",
                   "Second-to-last block must be 'Credits' header"}
            -> "missing-credits"
      [] text = "Missing 'References' header" -> "missing-references"
      [] text = "'References' section must contain list items" -> "empty-references"
      [] OTHER -> "none"

\* C6: every block sequence that violates the template is rejected with a
\* ValueError that carries the filename and names a rule the sequence violates.
C6_ViolationRejectedWithItsRule ==
    (pc # "parsed" /\ ViolatedRules(blocks) # {}) =>
        /\ pc = "rejected"
        /\ err.kind = "ValueError"
        /\ err.file = filename
        /\ RuleOfMessage(err.text) \in ViolatedRules(blocks)

-----------------------------------------------------------------------------
(* utils/markdown.py: the tokenizer.  A line is a sequence of one-character *)
(* strings; line indices are 0-based as in the code, so Python lines[k] is *)
(* lines[k+1].                                                             *)

\* longest document handed to the tokenizer, in lines
MaxLines == 4
\* main-loop iterations that do not advance the cursor before a run is cut off
MaxStall == 1

NoneLevel == -1

\* the backtick character (the module's strings cannot hold one)
Bt == "BACKTICK"

Fence == <<Bt, Bt, Bt>>

\* the lines documents are made of
LineCatalogue ==
    { <<>>,                                   \* blank
      <<Bt, Bt, Bt>>,                         \* fence
      <<" ", " ", Bt, Bt, Bt>>,               \* fence indented by two
      <<"#", " ", "a">>,                      \* header
      <<" ", "#", " ", "a">>,                 \* indented header
      <<"#", "a">>,                           \* hash that starts no header
      <<"-", " ", "a">>,                      \* list item
      <<" ", " ", " ", "b">>,                 \* indented text
      <<"c">>,                                \* text
      <<"|", "a", "|", "b", "|">>,            \* table row, two columns
      <<"|", "-", "|", "-", "|">>,            \* separator, two columns
      <<"|", "a", "|">> }                     \* table row, one column

\* str.isspace() and the regex class \s, over the characters of the model
IsSpace(c) == c \in {" ", "\t", "\n"}
IsDigit(c) == c \in {"0", "1", "2", "3", "4", "5", "6", "7", "8", "9"}

RECURSIVE LStripWs(_)
LStripWs(s) == IF s # <<>> /\ IsSpace(Head(s)) THEN LStripWs(Tail(s)) ELSE s

RECURSIVE RStripWs(_)
RStripWs(s) ==
    IF s # <<>> /\ IsSpace(s[Len(s)]) THEN RStripWs(SubSeq(s, 1, Len(s) - 1)) ELSE s

\* str.strip()
Strip(s) == RStripWs(LStripWs(s))

\* str.startswith(p)
StartsWith(s, p) == Len(s) >= Len(p) /\ SubSeq(s, 1, Len(p)) = p

RECURSIVE JoinWith(_, _)
\* sep.join(parts)
JoinWith(parts, sep) ==
    IF parts = <<>> THEN <<>>
    ELSE IF Len(parts) = 1 THEN parts[1]
    ELSE parts[1] \o sep \o JoinWith(Tail(parts), sep)

TokBlock(t, content, level, language, ls, header, rows, first, last) ==
    [type |-> t, content |-> content, level |-> level, language |-> language,
     lines |-> ls, header |-> header, rows |-> rows,
     \* history fields: the 0-based source lines first..last the block consumed
     first |-> first, last |-> last]

\* number of leading hash characters
RECURSIVE CountHashes(_)
CountHashes(s) == IF s # <<>> /\ Head(s) = "#" THEN 1 + CountHashes(Tail(s)) ELSE 0

\* _parse_header: re.match(r"^(#{1,6})\s+(.+)$", line) on a stripped line
ParseHeader(line) ==
    LET h == CountHashes(line)
        rest == SubSeq(line, h + 1, Len(line))
    IN IF h >= 1 /\ h <= 6 /\ rest # <<>> /\ IsSpace(rest[1]) /\ LStripWs(rest) # <<>>
          THEN [ok |-> TRUE, level |-> h, content |-> Strip(rest)]
          ELSE [ok |-> FALSE, level |-> NoneLevel, content |-> <<>>]

\* _get_indent
GetIndent(line) == Len(line) - Len(LStripWs(line))

\* mutant: the whole indentation of a code line is dropped
StripIndent_All(line, indent) == LStripWs(line)

\* _strip_indent
StripIndent(line, indent) ==
    IF indent <= 0 THEN line
    ELSE LET leading == Len(line) - Len(LStripWs(line))
             strip_count == IF leading < indent THEN leading ELSE indent
         IN SubSeq(line, strip_count + 1, Len(line))

IsFenceLine(line) == StartsWith(Strip(line), Fence)

\* the while loop of _parse_code_block: the 0-based index of the closing
\* fence from k on, Len(ls) when there is none
RECURSIVE CodeEnd(_, _)
CodeEnd(ls, k) ==
    IF k >= Len(ls) THEN k
    ELSE IF IsFenceLine(ls[k + 1]) THEN k
    ELSE CodeEnd(ls, k + 1)

\* _parse_code_block(lines, start)
ParseCodeBlock(ls, start) ==
    LET first_line == ls[start + 1]
        fence_indent == GetIndent(first_line)
        lang == Strip(SubSeq(Strip(first_line), 4, Len(Strip(first_line))))
        end == CodeEnd(ls, start + 1)
        code_lines == [k \in 1..(end - start - 1) |->
                            StripIndent(ls[start + 1 + k], fence_indent)]
    IN [block |-> TokBlock(CODE_BLOCK, JoinWith(code_lines, <<"\n">>), NoneLevel,
                           lang, code_lines, <<>>, <<>>,
                           start, IF end < Len(ls) THEN end ELSE Len(ls) - 1),
        i |-> end + 1]

\* _is_table_line
IsTableLine(line) == StartsWith(line, <<"|">>) /\ line[Len(line)] = "|" /\ Len(line) > 1

\* _is_table_separator: re.match(r"^\|[\s\-:|]+\|$", line.strip())
IsTableSeparator(line) ==
    LET s == Strip(line)
    IN /\ Len(s) >= 3
       /\ s[1] = "|"
       /\ s[Len(s)] = "|"
       /\ \A k \in 2..(Len(s) - 1) : s[k] \in {" ", "-", ":", "|"}

RECURSIVE LStripPipes(_)
LStripPipes(s) == IF s # <<>> /\ Head(s) = "|" THEN LStripPipes(Tail(s)) ELSE s

RECURSIVE RStripPipes(_)
RStripPipes(s) ==
    IF s # <<>> /\ s[Len(s)] = "|" THEN RStripPipes(SubSeq(s, 1, Len(s) - 1)) ELSE s

\* str.split("|"): acc holds the finished cells, cur the cell being read
RECURSIVE SplitPipes(_, _, _)
SplitPipes(s, cur, acc) ==
    IF s = <<>> THEN Append(acc, cur)
    ELSE IF Head(s) = "|" THEN SplitPipes(Tail(s), <<>>, Append(acc, cur))
    ELSE SplitPipes(Tail(s), Append(cur, Head(s)), acc)

\* _parse_table_row
ParseTableRow(line) ==
    LET cells == SplitPipes(RStripPipes(LStripPipes(Strip(line))), <<>>, <<>>)
    IN [k \in 1..Len(cells) |-> Strip(cells[k])]

TableError(text, line, row, has, expected) ==
    [kind |-> "ValueError", file |-> "", text |-> text,
     line |-> line, row |-> row, has |-> has, expected |-> expected]

\* the while loop of _parse_table: the 0-based index of the first line from k
\* on that is not a table line, Len(ls) when there is none
RECURSIVE TableEnd(_, _)
TableEnd(ls, k) ==
    IF k >= Len(ls) THEN k
    ELSE IF IsTableLine(ls[k + 1]) THEN TableEnd(ls, k + 1)
    ELSE k

\* mutant: the data rows' column counts are not compared with the header's
BadRowIndexes_Unchecked(table_lines, num_columns) == {}

\* mutant: the first data row is not compared with the header
BadRowIndexes_FromFourth(table_lines, num_columns) ==
    {k \in 4..Len(table_lines) : Len(ParseTableRow(table_lines[k])) # num_columns}

\* the data rows (1-based positions in table_lines) whose column count differs
BadRowIndexes(table_lines, num_columns) ==
    {k \in 3..Len(table_lines) : Len(ParseTableRow(table_lines[k])) # num_columns}

\* _parse_table(lines, start)
ParseTable(ls, start) ==
    LET end == TableEnd(ls, start)
        table_lines == SubSeq(ls, start + 1, end)
        NoBlock == TokBlock(TABLE, <<>>, NoneLevel, <<>>, <<>>, <<>>, <<>>, start, start)
        Raise(e) == [ok |-> FALSE, block |-> NoBlock, i |-> start, err |-> e]
    IN IF Len(table_lines) < 3
          THEN Raise(TableError("must have header, separator, and at least one data row",
                                start + 1, 0, 0, 0))
       ELSE LET header_cells == ParseTableRow(table_lines[1])
                num_columns == Len(header_cells)
                separator_cells == ParseTableRow(table_lines[2])
                bad == BadRowIndexes(table_lines, num_columns)
            IN IF num_columns = 0
                  THEN Raise(TableError("has empty header row", start + 1, 0, 0, 0))
               ELSE IF ~IsTableSeparator(table_lines[2])
                  THEN Raise(TableError("missing separator row", start + 1, 0, 0, 0))
               ELSE IF Len(separator_cells) # num_columns
                  THEN Raise(TableError("separator has columns, expected", start + 1, 0,
                                        Len(separator_cells), num_columns))
               ELSE IF bad # {}
                  THEN LET row_idx == CHOOSE k \in bad : \A j \in bad : k <= j
                       IN Raise(TableError("row has columns, expected", start + 1, row_idx,
                                           Len(ParseTableRow(table_lines[row_idx])),
                                           num_columns))
               ELSE [ok |-> TRUE,
                     block |-> TokBlock(TABLE, JoinWith(table_lines, <<"\n">>), NoneLevel,
                                        <<>>, table_lines, header_cells,
                                        [k \in 1..(Len(table_lines) - 2) |->
                                            ParseTableRow(table_lines[k + 2])],
                                        start, end - 1),
                     i |-> end,
                     err |-> NoError]

RECURSIVE CountDigits(_)
CountDigits(s) == IF s # <<>> /\ IsDigit(Head(s)) THEN 1 + CountDigits(Tail(s)) ELSE 0

\* _check_if_list_item_line: (is_list_item, content)
CheckIfListItemLine(line) ==
    LET stripped == LStripWs(line)
        d == CountDigits(stripped)
    IN IF Len(stripped) >= 2 /\ stripped[1] \in {"-", "*", "+"} /\ IsSpace(stripped[2])
          THEN [is |-> TRUE, content |-> LStripWs(SubSeq(stripped, 2, Len(stripped)))]
       ELSE IF d >= 1 /\ Len(stripped) >= d + 2 /\ stripped[d + 1] = "."
               /\ IsSpace(stripped[d + 2])
          THEN [is |-> TRUE, content |-> LStripWs(SubSeq(stripped, d + 2, Len(stripped)))]
       ELSE [is |-> FALSE, content |-> line]

\* _is_list_item
IsListItem(line) == CheckIfListItemLine(line).is

\* mutant: flush_current_item emits nothing
FlushCurrentItem_Drop(blks, cur, first, base_indent) == blks

\* flush_current_item: cur holds the item's lines, the first read at line first
FlushCurrentItem(blks, cur, first, base_indent) ==
    IF cur # <<>>
       THEN Append(blks, TokBlock(LIST_ITEM, JoinWith(cur, <<" ">>), base_indent, <<>>,
                                  cur, <<>>, <<>>, first, first + Len(cur) - 1))
       ELSE blks

\* mutant: a blank line inside a list never ends it
BlankContinuesList_Always(ls, k) == k + 1 < Len(ls)

\* line 295: the line after the blank line at k is a list-item line
BlankContinuesList(ls, k) == k + 1 < Len(ls) /\ IsListItem(ls[k + 2])

\* the while loop of _parse_list, at line k
RECURSIVE ListLoop(_, _, _, _, _, _)
ListLoop(ls, k, base_indent, blks, cur, first) ==
    LET Done == [blocks |-> FlushCurrentItem(blks, cur, first, base_indent), i |-> k]
    IN IF k >= Len(ls) THEN Done
       ELSE LET line == ls[k + 1]
                stripped == Strip(line)
            IN IF stripped = <<>>
                  THEN IF BlankContinuesList(ls, k)
                          THEN ListLoop(ls, k + 1, base_indent, blks, cur, first)
                          ELSE Done
               ELSE IF StartsWith(stripped, Fence)
                  THEN LET cb == ParseCodeBlock(ls, k)
                       IN ListLoop(ls, cb.i, base_indent,
                                   Append(FlushCurrentItem(blks, cur, first, base_indent),
                                          cb.block),
                                   <<>>, cb.i)
               ELSE LET current_indent == GetIndent(line)
                        chk == CheckIfListItemLine(line)
                    IN IF chk.is \/ current_indent > base_indent
                          THEN IF chk.is /\ cur # <<>>
                                  THEN ListLoop(ls, k + 1, base_indent,
                                                FlushCurrentItem(blks, cur, first, base_indent),
                                                <<chk.content>>, k)
                                  ELSE ListLoop(ls, k + 1, base_indent, blks,
                                                Append(cur, chk.content),
                                                IF cur = <<>> THEN k ELSE first)
                          ELSE Done

\* _parse_list(lines, start)
ParseList(ls, start) ==
    ListLoop(ls, start, GetIndent(ls[start + 1]), <<>>, <<>>, start)

\* lines 339-342: the line at k ends a paragraph
StartsSpecialBlock(ls, k) ==
    LET line == ls[k + 1]
    IN \/ StartsWith(line, <<"#">>)
       \/ StartsWith(Strip(line), Fence)
       \/ IsListItem(line)
       \/ IsTableLine(line) /\ k + 1 < Len(ls) /\ IsTableSeparator(ls[k + 2])

\* the while loop of _parse_paragraph: the 0-based index of the line that
\* ends the paragraph from k on, Len(ls) when there is none
RECURSIVE ParagraphEnd(_, _)
ParagraphEnd(ls, k) ==
    IF k >= Len(ls) THEN k
    ELSE IF Strip(ls[k + 1]) = <<>> THEN k
    ELSE IF StartsSpecialBlock(ls, k) THEN k
    ELSE ParagraphEnd(ls, k + 1)

\* _parse_paragraph(lines, start)
ParseParagraph(ls, start) ==
    LET end == ParagraphEnd(ls, start)
        paragraph_lines == SubSeq(ls, start + 1, end)
    IN [block |-> TokBlock(PARAGRAPH, JoinWith(paragraph_lines, <<" ">>), NoneLevel,
                           <<>>, paragraph_lines, <<>>, <<>>, start, end - 1),
        i |-> end]

\* the loop of __validate_block_counts over ls[k..]
RECURSIVE CountLoop(_, _, _, _, _)
CountLoop(ls, k, in_code_block, num_headers, num_code_fences) ==
    IF k > Len(ls)
       THEN [in_code_block |-> in_code_block, num_headers |-> num_headers,
             num_code_fences |-> num_code_fences]
    ELSE IF StartsWith(Strip(ls[k]), Fence)
       THEN CountLoop(ls, k + 1, ~in_code_block, num_headers, num_code_fences + 1)
    ELSE IF ~in_code_block /\ StartsWith(ls[k], <<"#">>)
       THEN CountLoop(ls, k + 1, in_code_block, num_headers + 1, num_code_fences)
    ELSE CountLoop(ls, k + 1, in_code_block, num_headers, num_code_fences)

NumOfType(blks, t) == Cardinality({k \in 1..Len(blks) : blks[k].type = t})

\* __validate_block_counts: TRUE when the three assertions pass
ValidateBlockCounts(ls, blks) ==
    LET c == CountLoop(ls, 1, FALSE, 0, 0)
    IN /\ ~c.in_code_block
       /\ NumOfType(blks, HEADER) = c.num_headers
       /\ NumOfType(blks, CODE_BLOCK) = c.num_code_fences \div 2

AssertionError == [kind |-> "AssertionError", file |-> "", text |-> "assert"]

-----------------------------------------------------------------------------
(* parse_markdown_document: one action for each branch of the main loop *)

InitTokenizer ==
    /\ pc = "loop"
    /\ lines \in UNION {[1..k -> LineCatalogue] : k \in 1..MaxLines}
    /\ i = 0
    /\ blocks = <<>>
    /\ err = NoError
    /\ filename = "doc.md"
    /\ sections = <<>>
    /\ NoChunking

InLoop == pc = "loop" /\ i < Len(lines)
Stripped == Strip(lines[i + 1])
AtFence == StartsWith(Stripped, Fence)
AtHeader == StartsWith(Stripped, <<"#">>) /\ ParseHeader(Stripped).ok
AtTable ==
    IsTableLine(Stripped) /\ i + 1 < Len(lines) /\ IsTableSeparator(lines[i + 2])
AtList == IsListItem(lines[i + 1])

SkipBlank ==
    /\ InLoop
    /\ Stripped = <<>>
    /\ i' = i + 1
    /\ UNCHANGED <<pc, lines, blocks, err, advVars, chunkVars>>

TokCodeBlock ==
    /\ InLoop
    /\ Stripped # <<>>
    /\ AtFence
    /\ LET r == ParseCodeBlock(lines, i)
       IN blocks' = Append(blocks, r.block) /\ i' = r.i
    /\ UNCHANGED <<pc, lines, err, advVars, chunkVars>>

TokHeader ==
    /\ InLoop
    /\ Stripped # <<>>
    /\ ~AtFence
    /\ AtHeader
    /\ LET h == ParseHeader(Stripped)
       IN blocks' = Append(blocks, TokBlock(HEADER, h.content, h.level, <<>>, <<>>,
                                            <<>>, <<>>, i, i))
    /\ i' = i + 1
    /\ UNCHANGED <<pc, lines, err, advVars, chunkVars>>

TokTable ==
    /\ InLoop
    /\ Stripped # <<>>
    /\ ~AtFence
    /\ ~AtHeader
    /\ AtTable
    /\ LET r == ParseTable(lines, i)
       IN IF r.ok
             THEN blocks' = Append(blocks, r.block) /\ i' = r.i /\ UNCHANGED <<pc, err>>
             ELSE pc' = "error" /\ err' = r.err /\ UNCHANGED <<blocks, i>>
    /\ UNCHANGED <<lines, advVars, chunkVars>>

TokList ==
    /\ InLoop
    /\ Stripped # <<>>
    /\ ~AtFence
    /\ ~AtHeader
    /\ ~AtTable
    /\ AtList
    /\ LET r == ParseList(lines, i)
       IN blocks' = blocks \o r.blocks /\ i' = r.i
    /\ UNCHANGED <<pc, lines, err, advVars, chunkVars>>

TokParagraph ==
    /\ InLoop
    \* every block consumes a line unless the cursor stalls
    /\ Len(blocks) < i + MaxStall
    /\ Stripped # <<>>
    /\ ~AtFence
    /\ ~AtHeader
    /\ ~AtTable
    /\ ~AtList
    /\ LET r == ParseParagraph(lines, i)
       IN blocks' = Append(blocks, r.block) /\ i' = r.i
    /\ UNCHANGED <<pc, lines, err, advVars, chunkVars>>

\* the loop has ended: __validate_block_counts, then return blocks
TokValidate ==
    /\ pc = "loop"
    /\ i >= Len(lines)
    /\ IF ValidateBlockCounts(lines, blocks)
          THEN pc' = "done" /\ UNCHANGED err
          ELSE pc' = "assert" /\ err' = AssertionError
    /\ UNCHANGED <<lines, i, blocks, advVars, chunkVars>>

NextTokenizer ==
    \/ SkipBlank
    \/ TokCodeBlock
    \/ TokHeader
    \/ TokTable
    \/ TokList
    \/ TokParagraph
    \/ TokValidate

SpecTokenizer == InitTokenizer /\ [][NextTokenizer]_vars

-----------------------------------------------------------------------------
(* Properties of the tokenizer.  Positions below are 1-based positions in  *)
(* lines.                                                                  *)

FenceLines(ls) == {k \in 1..Len(ls) : IsFenceLine(ls[k])}

\* fl being the fence lines of a document: the fence line at k opens a code
\* block, an even number of fences preceding it
OpensFence(fl, k) == k \in fl /\ Cardinality({j \in fl : j < k}) % 2 = 0

\* line k lies strictly between an opening fence and its closing fence or the
\* end of the input
InsideFence(fl, k) == k \notin fl /\ Cardinality({j \in fl : j < k}) % 2 = 1

\* the last opening fence has no closing fence
Unterminated(ls) == Cardinality(FenceLines(ls)) % 2 = 1

Returned == pc \in {"done", "assert"}

CodeBlocks == {k \in 1..Len(blocks) : blocks[k].type = CODE_BLOCK}

\* C7: when the last opening fence has no closing fence the tokenizer still
\* returns, without any error, and the last CodeBlock holds every line after
\* that fence up to the end of the input.
C7_UnterminatedFenceTolerated ==
    (Returned /\ Unterminated(lines)) =>
        /\ pc = "done"
        /\ CodeBlocks # {}
        /\ LET b == blocks[Max(CodeBlocks)]
               f == Max(FenceLines(lines))
           IN /\ b.first = f - 1
              /\ Len(b.lines) = Len(lines) - f

\* C8: whenever the main loop completes (here on inputs whose fences are all
\* closed) the self-check passes: as many Header blocks as lines starting with
\* a hash outside fenced regions, and as many CodeBlocks as half the fences.
C8_SelfCheckNeverFires ==
    (Returned /\ ~Unterminated(lines)) =>
        LET fl == FenceLines(lines)
        IN /\ pc = "done"
           /\ NumOfType(blocks, HEADER) =
                Cardinality({k \in 1..Len(lines) :
                                /\ k \notin fl
                                /\ ~InsideFence(fl, k)
                                /\ StartsWith(lines[k], <<"#">>)})
           /\ NumOfType(blocks, CODE_BLOCK) = Cardinality(fl) \div 2

\* line with at most n leading whitespace characters removed gives out
StrippedByAtMost(line, n, out) ==
    \E d \in 0..n : d <= GetIndent(line) /\ out = SubSeq(line, d + 1, Len(line))

\* the closing fence of the fence at f, n + 1 in a document of n lines when
\* there is none
ClosingFence(fl, f, n) ==
    IF \E k \in fl : k > f
       THEN CHOOSE k \in fl : k > f /\ \A j \in fl : j > f => k <= j
       ELSE n + 1

\* C9: no line strictly inside a fence is consumed by a Header, ListItem,
\* Table or Paragraph block; every CodeBlock starts at an opening fence and
\* holds, in order, exactly the lines up to the closing fence (or the end of
\* the input), each with at most the fence's indentation removed; and every
\* fenced line the cursor has passed is in a CodeBlock.
C9_FenceIsolation ==
    LET fl == FenceLines(lines)
    IN /\ fl # {} =>
            \A n \in 1..Len(blocks) :
                blocks[n].type # CODE_BLOCK =>
                    \A k \in (blocks[n].first + 1)..(blocks[n].last + 1) :
                        k \notin fl /\ ~InsideFence(fl, k)
       /\ \A n \in CodeBlocks :
            LET b == blocks[n]
                f == b.first + 1
                c == ClosingFence(fl, f, Len(lines))
            IN /\ OpensFence(fl, f)
               /\ Len(b.lines) = c - f - 1
               /\ \A j \in 1..Len(b.lines) :
                    StrippedByAtMost(lines[f + j], GetIndent(lines[f]), b.lines[j])
               /\ b.content = JoinWith(b.lines, <<"\n">>)
       /\ fl # {} =>
            \A k \in 1..Len(lines) :
                (k <= i /\ InsideFence(fl, k)) =>
                    \E n \in CodeBlocks :
                        blocks[n].first + 1 < k /\ k <= blocks[n].last + 1

\* a fence indented inside a list, with a header-like line between the fences
C9_Witness ==
    /\ pc = "done"
    /\ \E n \in CodeBlocks :
        /\ n > 1
        /\ blocks[n - 1].type = LIST_ITEM
        /\ GetIndent(lines[blocks[n].first + 1]) > 0
        /\ \E j \in 1..Len(blocks[n].lines) : StartsWith(Strip(blocks[n].lines[j]), <<"#">>)

\* C10: every Table block has a non-empty header and at least one data row,
\* and the separator row and every data row have as many cells as the header.
C10_TableArity ==
    \A n \in 1..Len(blocks) :
        blocks[n].type = TABLE =>
            LET b == blocks[n]
            IN /\ Len(b.header) >= 1
               /\ Len(b.rows) >= 1
               /\ Len(b.lines) = Len(b.rows) + 2
               /\ Len(ParseTableRow(b.lines[2])) = Len(b.header)
               /\ \A r \in 1..Len(b.rows) :
                    /\ Len(b.rows[r]) = Len(b.header)
                    /\ Len(ParseTableRow(b.lines[r + 2])) = Len(b.header)

C10_Witness ==
    /\ pc = "done"
    /\ \E n \in 1..Len(blocks) :
        blocks[n].type = TABLE /\ Len(blocks[n].header) = 2 /\ Len(blocks[n].rows) >= 1

-----------------------------------------------------------------------------
(* Malformed tables.  The cursor i is 0-based: the candidate's first line is *)
(* lines[i + 1], whose line number in the document is i + 1.                 *)

\* the main loop stands at a table candidate: a pipe-wrapped line with a
\* separator line after it, not taken by an earlier branch of the loop
AtTableCandidate ==
    InLoop /\ Stripped # <<>> /\ ~AtFence /\ ~AtHeader /\ AtTable

\* the number of contiguous pipe-wrapped lines from the candidate's first line
RunLength ==
    Cardinality({n \in 1..(Len(lines) - i) : \A j \in 1..n : IsTableLine(lines[i + j])})

Cols(k) == Len(ParseTableRow(lines[k]))

\* the rows of the candidate (positions 2.. within it) whose column count
\* differs from the header row's
MismatchedRows == {j \in 2..RunLength : Cols(i + j) # Cols(i + 1)}

TooShort == RunLength < 3
Mismatch == ~TooShort /\ MismatchedRows # {}
FirstMismatch == CHOOSE j \in MismatchedRows : \A k \in MismatchedRows : j <= k

\* C11 as stated: at a table candidate with fewer than three contiguous
\* pipe-wrapped lines, or whose separator or a data row differs from the
\* header in column count, tokenization fails with an error that names the
\* line number of the offending row and the actual and expected column
\* counts, and no block sequence is returned.
C11_NamesOffendingLine ==
    [][(AtTableCandidate /\ (TooShort \/ Mismatch)) =>
         /\ pc' = "error"
         /\ err'.kind = "ValueError"
         /\ Mismatch =>
              /\ err'.line = i + FirstMismatch
              /\ err'.has = Cols(i + FirstMismatch)
              /\ err'.expected = Cols(i + 1)]_vars

\* C11: at such a candidate tokenization fails with a ValueError and returns
\* no block sequence; the error names the line number of the first line of
\* the table; for a column mismatch it also names the first offending row
\* (the separator, or the data row by its position within the table, the
\* header being row 1) and the actual and expected column counts; for a
\* table of fewer than three lines it names no row and no column count.
C11_NamesTableLineAndRow ==
    [][(AtTableCandidate /\ (TooShort \/ Mismatch)) =>
         /\ pc' = "error"
         /\ blocks' = blocks
         /\ err'.kind = "ValueError"
         /\ err'.line = i + 1
         /\ TooShort =>
              /\ err'.text = "must have header, separator, and at least one data row"
              /\ err'.row = 0 /\ err'.has = 0 /\ err'.expected = 0
         /\ Mismatch =>
              /\ err'.has = Cols(i + FirstMismatch)
              /\ err'.expected = Cols(i + 1)
              /\ IF FirstMismatch = 2
                    THEN err'.text = "separator has columns, expected" /\ err'.row = 0
                    ELSE err'.text = "row has columns, expected"
                         /\ err'.row = FirstMismatch]_vars

\* a data row of the wrong width in a table that does not start the document
C11_Witness ==
    /\ pc = "error"
    /\ i >= 1
    /\ err.text = "row has columns, expected"
    /\ err.row = 3
    /\ err.has = 1 /\ err.expected = 2

-----------------------------------------------------------------------------
(* utils/text.py.  Texts are sequences of one-character strings, as lines   *)
(* are in the tokenizer.                                                    *)

\* longest text handed to split_into_sentences on its own
MaxText == 5

UpperLetters ==
    <<"A", "B", "C", "D", "E", "F", "G", "H", "I", "J", "K", "L", "M",
      "N", "O", "P", "Q", "R", "S", "T", "U", "V", "W", "X", "Y", "Z">>
LowerLetters ==
    <<"a", "b", "c", "d", "e", "f", "g", "h", "i", "j", "k", "l", "m",
      "n", "o", "p", "q", "r", "s", "t", "u", "v", "w", "x", "y", "z">>

\* the regex class [A-Z]
IsUpper(c) == \E k \in 1..26 : UpperLetters[k] = c

\* the regex class [.!?]
IsTerminal(c) == c \in {".", "!", "?"}

\* the last position of the whitespace run that starts at position p of t
RECURSIVE WsEnd(_, _)
WsEnd(t, p) == IF p < Len(t) /\ IsSpace(t[p + 1]) THEN WsEnd(t, p + 1) ELSE p

\* mutant: the boundary does not look ahead for an upper-case letter
BoundaryAt_AnyCase(t, p) ==
    /\ p > 1
    /\ IsTerminal(t[p - 1])
    /\ IsSpace(t[p])
    /\ WsEnd(t, p) < Len(t)

\* _SENTENCE_BOUNDARY matches at position p of t: (?<=[.!?])\s+(?=[A-Z])
BoundaryAt(t, p) ==
    /\ p > 1
    /\ IsTerminal(t[p - 1])
    /\ IsSpace(t[p])
    /\ WsEnd(t, p) < Len(t)
    /\ IsUpper(t[WsEnd(t, p) + 1])

\* _SENTENCE_BOUNDARY.split(t): the scan is at position p, the piece being
\* read started at position start, acc holds the finished pieces
RECURSIVE RegexSplit(_, _, _, _)
RegexSplit(t, p, start, acc) ==
    IF p > Len(t) THEN Append(acc, SubSeq(t, start, Len(t)))
    ELSE IF BoundaryAt(t, p)
       THEN RegexSplit(t, WsEnd(t, p) + 1, WsEnd(t, p) + 1,
                       Append(acc, SubSeq(t, start, p - 1)))
    ELSE RegexSplit(t, p + 1, start, acc)

\* mutant: the trimmed text is returned whole
SplitIntoSentences_Whole(text) ==
    IF text = <<>> \/ Strip(text) = <<>> THEN <<>> ELSE <<Strip(text)>>

\* split_into_sentences(text)
SplitIntoSentences(text) ==
    IF text = <<>> \/ Strip(text) = <<>> THEN <<>>
    ELSE LET sentences == RegexSplit(Strip(text), 1, 1, <<>>)
             stripped == [k \in 1..Len(sentences) |-> Strip(sentences[k])]
         IN SelectSeq(stripped, LAMBDA x : x # <<>>)

\* the characters the texts handed to the splitter are drawn from
TextAlphabet == {".", "?", " ", "\n", "A", "a"}

InitSplit ==
    /\ pc = "text"
    /\ arg \in UNION {[1..k -> TextAlphabet] : k \in 0..MaxText}
    /\ ret = <<>>
    /\ filename = "" /\ lines = <<>> /\ i = 0 /\ blocks = <<>> /\ err = NoError
    /\ sections = <<>> /\ advisories = <<>> /\ model = "none" /\ chunks = <<>>
    /\ calls = <<>> /\ index = <<>>
    /\ collection = "none" /\ ops = <<>> /\ history = <<>>

Split ==
    /\ pc = "text"
    /\ ret' = SplitIntoSentences(arg)
    /\ pc' = "split"
    /\ UNCHANGED <<filename, lines, i, blocks, err, sections, advisories, model,
                   chunks, calls, index, arg, collection, ops, history>>

NextSplit == Split

SpecSplit == InitSplit /\ [][NextSplit]_vars

\* the text has a sentence boundary: a terminal mark, then whitespace, then an
\* upper-case letter
HasBoundary(t) ==
    \E p, q \in 1..Len(t) :
        /\ p < q
        /\ IsTerminal(t[p])
        /\ IsUpper(t[q])
        /\ q > p + 1
        /\ \A k \in (p + 1)..(q - 1) : IsSpace(t[k])

NoSpaces(t) == SelectSeq(t, LAMBDA c : ~IsSpace(c))

RECURSIVE Concat(_)
Concat(ss) == IF ss = <<>> THEN <<>> ELSE Head(ss) \o Concat(Tail(ss))

\* C17: split_into_sentences returns only non-empty strings without leading
\* or trailing whitespace, in source order (together they hold the
\* non-whitespace characters of the text, in order); an empty or
\* whitespace-only text gives the empty list; a text without a sentence
\* boundary gives the trimmed text alone; splitting any returned element
\* again returns that element alone.
C17_SplitIntoSentences ==
    pc = "split" =>
        /\ \A k \in 1..Len(ret) :
            /\ ret[k] # <<>>
            /\ ~IsSpace(ret[k][1])
            /\ ~IsSpace(ret[k][Len(ret[k])])
            /\ SplitIntoSentences(ret[k]) = <<ret[k]>>
        /\ NoSpaces(Concat(ret)) = NoSpaces(arg)
        /\ NoSpaces(arg) = <<>> => ret = <<>>
        /\ (NoSpaces(arg) # <<>> /\ ~HasBoundary(arg)) => ret = <<Strip(arg)>>

\* a text with leading whitespace and a boundary whose whitespace run is two
\* characters long: two sentences
C17_Witness ==
    /\ pc = "split"
    /\ Len(ret) = 2
    /\ HasBoundary(arg)
    /\ IsSpace(arg[1])
    /\ Len(arg) = Len(ret[1]) + Len(ret[2]) + 3

-----------------------------------------------------------------------------
(* advisories.py: chunking, indexing and rendering of loaded advisories.    *)
(* The validator and the extractor compare a block's content as a whole, so *)
(* contents are strings; the text helpers read them character by character. *)

\* a str of the advisories as the sequence of its characters
Chars(s) ==
    CASE s = "" ->
           <<>>
      [] s = "Security Advisory: Example Vuln" ->
           <<"S", "e", "c", "u", "r", "i", "t", "y", " ", "A", "d", "v",
             "i", "s", "o", "r", "y", ":", " ", "E", "x", "a", "m", "p",
             "l", "e", " ", "V", "u", "l", "n">>
      [] s = "Executive Summary" ->
           <<"E", "x", "e", "c", "u", "t", "i", "v", "e", " ", "S", "u",
             "m", "m", "a", "r", "y">>
      [] s = "References" ->
           <<"R", "e", "f", "e", "r", "e", "n", "c", "e", "s">>
      [] s = "Credits" ->
           <<"C", "r", "e", "d", "i", "t", "s">>
      [] s = "Details" ->
           <<"D", "e", "t", "a", "i", "l", "s">>
      [] s = "Published 2024-01-01." ->
           <<"P", "u", "b", "l", "i", "s", "h", "e", "d", " ", "2", "0",
             "2", "4", "-", "0", "1", "-", "0", "1", ".">>
      [] s = "This vulnerability allows remote code execution." ->
           <<"T", "h", "i", "s", " ", "v", "u", "l", "n", "e", "r", "a",
             "b", "i", "l", "i", "t", "y", " ", "a", "l", "l", "o", "w",
             "s", " ", "r", "e", "m", "o", "t", "e", " ", "c", "o", "d",
             "e", " ", "e", "x", "e", "c", "u", "t", "i", "o", "n", ".">>
      [] s = "Attackers can exploit X. They gain Y." ->
           <<"A", "t", "t", "a", "c", "k", "e", "r", "s", " ", "c", "a",
             "n", " ", "e", "x", "p", "l", "o", "i", "t", " ", "X", ".",
             " ", "T", "h", "e", "y", " ", "g", "a", "i", "n", " ", "Y",
             ".">>
      [] s = "NVD entry" ->
           <<"N", "V", "D", " ", "e", "n", "t", "r", "y">>
      [] s = "Thanks to the researcher." ->
           <<"T", "h", "a", "n", "k", "s", " ", "t", "o", " ", "t", "h",
             "e", " ", "r", "e", "s", "e", "a", "r", "c", "h", "e", "r",
             ".">>
      [] s = "Upgrade now. Then restart." ->
           <<"U", "p", "g", "r", "a", "d", "e", " ", "n", "o", "w", ".",
             " ", "T", "h", "e", "n", " ", "r", "e", "s", "t", "a", "r",
             "t", ".">>
      [] s = "Upgrade now." ->
           <<"U", "p", "g", "r", "a", "d", "e", " ", "n", "o", "w", ".">>
      [] s = "Then restart." ->
           <<"T", "h", "e", "n", " ", "r", "e", "s", "t", "a", "r", "t",
             ".">>
      [] s = "x = 1" ->
           <<"x", " ", "=", " ", "1">>
      [] s = "py" ->
           <<"p", "y">>
      [] s = "rm -rf /" ->
           <<"r", "m", " ", "-", "r", "f", " ", "/">>
      [] s = "Pkg Name" ->
           <<"P", "k", "g", " ", "N", "a", "m", "e">>
      [] s = "Ver" ->
           <<"V", "e", "r">>
      [] s = "left pad" ->
           <<"l", "e", "f", "t", " ", "p", "a", "d">>
      [] s = "1.0" ->
           <<"1", ".", "0">>
      [] s = "b" ->
           <<"b">>
      [] s = "2" ->
           <<"2">>
      [] s = "| Pkg Name | Ver |" ->
           <<"|", " ", "P", "k", "g", " ", "N", "a", "m", "e", " ", "|",
             " ", "V", "e", "r", " ", "|">>
      [] s = "|---|---|" ->
           <<"|", "-", "-", "-", "|", "-", "-", "-", "|">>
      [] s = "| left pad | 1.0 |" ->
           <<"|", " ", "l", "e", "f", "t", " ", "p", "a", "d", " ", "|",
             " ", "1", ".", "0", " ", "|">>
      [] s = "| b | 2 |" ->
           <<"|", " ", "b", " ", "|", " ", "2", " ", "|">>
      [] s = "| Pkg Name | Ver |\n|---|---|\n| left pad | 1.0 |\n| b | 2 |" ->
           <<"|", " ", "P", "k", "g", " ", "N", "a", "m", "e", " ", "|",
             " ", "V", "e", "r", " ", "|", "\n", "|", "-", "-", "-", "|",
             "-", "-", "-", "|", "\n", "|", " ", "l", "e", "f", "t", " ",
             "p", "a", "d", " ", "|", " ", "1", ".", "0", " ", "|", "\n",
             "|", " ", "b", " ", "|", " ", "2", " ", "|">>
      [] s = "Attackers can exploit X." ->
           <<"A", "t", "t", "a", "c", "k", "e", "r", "s", " ", "c", "a",
             "n", " ", "e", "x", "p", "l", "o", "i", "t", " ", "X", ".">>
      [] s = "They gain Y." ->
           <<"T", "h", "e", "y", " ", "g", "a", "i", "n", " ", "Y", ".">>
      [] s = "adv1.md" ->
           <<"a", "d", "v", "1", ".", "m", "d">>
      [] s = "adv2.md" ->
           <<"a", "d", "v", "2", ".", "m", "d">>
      [] s = "adv3.md" ->
           <<"a", "d", "v", "3", ".", "m", "d">>
      [] s = "adv4.md" ->
           <<"a", "d", "v", "4", ".", "m", "d">>

\* Block(type, content, level, language, lines, header, rows); an absent
\* level is NoneLevel, an absent language "", an absent list <<>>
DocBlock(t, content, level, language, ls, header, rows) ==
    [type |-> t, content |-> content, level |-> level, language |-> language,
     lines |-> ls, header |-> header, rows |-> rows]

DocHeader(level, content) == DocBlock(HEADER, content, level, "", <<>>, <<>>, <<>>)
DocParagraph(content) == DocBlock(PARAGRAPH, content, NoneLevel, "", <<content>>, <<>>, <<>>)

\* the blocks of the template
DocTitle == DocHeader(1, TitleText)
DocPublished == DocParagraph("Published 2024-01-01.")
DocSummary == DocHeader(2, "Executive Summary")
DocSummaryText == DocParagraph("This vulnerability allows remote code execution.")
DocRefs == DocHeader(2, "References")
DocRefItem == DocBlock(LIST_ITEM, "NVD entry", 0, "", <<"NVD entry">>, <<>>, <<>>)
DocCredits == DocHeader(2, "Credits")
DocThanks == DocParagraph("Thanks to the researcher.")

\* the blocks of the body
DocDetails == DocHeader(2, "Details")
DocTwoSentences == DocParagraph("Attackers can exploit X. They gain Y.")
DocItem ==
    DocBlock(LIST_ITEM, "Upgrade now. Then restart.", 0, "",
             <<"Upgrade now.", "Then restart.">>, <<>>, <<>>)
DocCode == DocBlock(CODE_BLOCK, "x = 1", NoneLevel, "py", <<"x = 1">>, <<>>, <<>>)
DocShell == DocBlock(CODE_BLOCK, "rm -rf /", NoneLevel, "", <<"rm -rf /">>, <<>>, <<>>)
DocTable ==
    DocBlock(TABLE, "| Pkg Name | Ver |\n|---|---|\n| left pad | 1.0 |\n| b | 2 |",
             NoneLevel, "",
             <<"| Pkg Name | Ver |", "|---|---|", "| left pad | 1.0 |", "| b | 2 |">>,
             <<"Pkg Name", "Ver">>, <<<<"left pad", "1.0">>, <<"b", "2">>>>)

BodyUniverse == {DocDetails, DocTwoSentences, DocItem, DocCode, DocShell, DocTable}

\* longest body of a loaded advisory
MaxBody == 2

\* a document of the template around a body
Framed(body) ==
    <<DocTitle, DocPublished, DocSummary, DocSummaryText>> \o body
        \o <<DocRefs, DocRefItem, DocCredits, DocThanks>>

\* the ten blocks of the end-to-end scenario
ScenarioBlocks == Framed(<<DocDetails, DocTwoSentences>>)

\* the documents a directory's first file is drawn from
LoadableDocs == {Framed(body) : body \in SeqsUpTo(BodyUniverse, MaxBody)}

\* the documents its second file, when there is one, is drawn from
SecondDocs == {ScenarioBlocks, Framed(<<DocCode, DocTable>>)}

-----------------------------------------------------------------------------
(* utils/text.py: table rows as text *)

\* str.lower() of one character
ToLower(c) ==
    IF IsUpper(c) THEN LowerLetters[CHOOSE k \in 1..26 : UpperLetters[k] = c] ELSE c

\* mutant: the key keeps the header's case
TableKey_KeepCase(header) ==
    [k \in 1..Len(header) |-> IF header[k] = " " THEN "_" ELSE header[k]]

\* header.lower().replace(" ", "_")
TableKey(header) ==
    [k \in 1..Len(header) |-> IF ToLower(header[k]) = " " THEN "_" ELSE ToLower(header[k])]

Min(a, b) == IF a <= b THEN a ELSE b

\* format_table_row(headers, values); zip stops at the shorter list
FormatTableRow(headers, values) ==
    LET parts == [k \in 1..Min(Len(headers), Len(values)) |->
                    TableKey(headers[k]) \o <<":", " ", "\"">> \o values[k] \o <<"\"">>]
    IN JoinWith(parts, <<",", " ">>)

CharsOfAll(ss) == [k \in 1..Len(ss) |-> Chars(ss[k])]

\* format_table_block(block), for a table block of the tokenizer, whose
\* header and rows are set
FormatTableBlock(block) ==
    [r \in 1..Len(block.rows) |->
        FormatTableRow(CharsOfAll(block.header), CharsOfAll(block.rows[r]))]

-----------------------------------------------------------------------------
(* Section.get_chunks, _Advisory.get_chunks *)

\* the summary summarize_code_snippet returns when it returns one
Summarize(code) == <<"S", "U", "M", "(">> \o code \o <<")">>

\* the error summarize_code_snippet raises when it fails
SummarizerError == [kind |-> "SummarizerError", file |-> "", text |-> "summarize failed"]

\* _Chunk(text, section, source_type, block): section and block are held as
\* the section's position in the advisory and the block's position in it
Chunk(text, section, source_type, block) ==
    [text |-> text, section |-> section, source_type |-> source_type, block |-> block]

\* one helper call of the history: which helper, for which block of which
\* section, on what text, and whether it returned
Call(op, section, block, text, ok) ==
    [op |-> op, section |-> section, block |-> block, text |-> text, ok |-> ok]

\* the running state of a chunking pass: the chunks so far, the history, the
\* error raised, and the number of summarizer calls made
NoPass == [chunks |-> <<>>, calls |-> <<>>, err |-> NoError, n |-> 0]

\* mutant: new chunks are put in front of the list
ExtendChunks_Front(chunks_, new) == new \o chunks_

\* chunks.append for each new chunk in turn
ExtendChunks(chunks_, new) == chunks_ \o new

\* mutant: the code itself is the chunk's text
CodeChunkText_Raw(content, summary) == content

\* the text of a code block's chunk
CodeChunkText(content, summary) == summary

\* the for loop of Section.get_chunks from the k-th block of the section on;
\* bs are the advisory's blocks, s the section's position, failAt the number
\* of the summarizer call that fails (0: none does)
RECURSIVE GetChunksLoop(_, _, _, _, _, _)
GetChunksLoop(bs, sec, s, k, failAt, acc) ==
    IF k > Len(sec.blocks) THEN acc
    ELSE
      LET bi == sec.blocks[k]
          block == bs[bi]
          content == Chars(block.content)
          Emit(op, texts) ==
              [acc EXCEPT
                 !.chunks = ExtendChunks(@, [j \in 1..Len(texts) |->
                                               Chunk(texts[j], s, block.type, bi)]),
                 !.calls = Append(@, Call(op, s, bi, content, TRUE))]
      IN IF block.type \in {PARAGRAPH, LIST_ITEM}
            THEN GetChunksLoop(bs, sec, s, k + 1, failAt,
                               Emit("split_into_sentences", SplitIntoSentences(content)))
         ELSE IF block.type = TABLE
            THEN GetChunksLoop(bs, sec, s, k + 1, failAt,
                               Emit("format_table_block", FormatTableBlock(block)))
         ELSE IF block.type = CODE_BLOCK
            THEN IF acc.n + 1 = failAt
                    THEN [acc EXCEPT
                            !.calls = Append(@, Call("summarize_code_snippet", s, bi,
                                                     content, FALSE)),
                            !.err = SummarizerError,
                            !.n = @ + 1]
                    ELSE GetChunksLoop(bs, sec, s, k + 1, failAt,
                            [Emit("summarize_code_snippet",
                                  <<CodeChunkText(content, Summarize(content))>>)
                               EXCEPT !.n = @ + 1])
         ELSE GetChunksLoop(bs, sec, s, k + 1, failAt, acc)

\* Section.get_chunks(model) of section s of an advisory, continuing the pass
\* acc: the section's own chunk list is appended by the caller
SectionGetChunks(adv, s, failAt, acc) ==
    GetChunksLoop(adv.blocks, adv.sections[s], s, 1, failAt, [acc EXCEPT !.chunks = <<>>])

\* the for loop of _Advisory.get_chunks from section s on
RECURSIVE AdvisoryLoop(_, _, _, _)
AdvisoryLoop(adv, s, failAt, acc) ==
    IF s > Len(adv.sections) THEN acc
    ELSE LET r == SectionGetChunks(adv, s, failAt, acc)
         IN IF r.err # NoError THEN r
            ELSE AdvisoryLoop(adv, s + 1, failAt,
                              [r EXCEPT !.chunks = acc.chunks \o r.chunks])

\* _Advisory.get_chunks(model)
AdvisoryGetChunks(adv, failAt) == AdvisoryLoop(adv, 1, failAt, NoPass)

-----------------------------------------------------------------------------
(* Advisories.init_vectordb *)

Digits == <<"0", "1", "2", "3", "4", "5", "6", "7", "8", "9">>

\* str(n) of a natural number
RECURSIVE Str(_)
Str(n) == IF n < 10 THEN <<Digits[n + 1]>> ELSE Str(n \div 10) \o <<Digits[(n % 10) + 1]>>

\* mutant: the id leaves the section index out
ChunkId_NoSection(fname, section_idx, chunk_idx) ==
    Chars(fname) \o <<"_">> \o Str(chunk_idx)

\* f"{advisory.filename}_{section_idx}_{chunk_idx}", the indices 0-based
ChunkId(fname, section_idx, chunk_idx) ==
    Chars(fname) \o <<"_">> \o Str(section_idx) \o <<"_">> \o Str(chunk_idx)

\* one entry of the batch: id, document, metadata
Entry(id, document, fname, section_idx) ==
    [id |-> id, document |-> document,
     metadata |-> [advisory_filename |-> fname, section_index |-> section_idx]]

\* the loops of init_vectordb over the advisories and their sections, at
\* section s of advisory a; entries is the batch prepared so far
RECURSIVE VectorDbLoop(_, _, _, _, _, _)
VectorDbLoop(advs, a, s, failAt, acc, entries) ==
    IF a > Len(advs) THEN [pass |-> acc, entries |-> entries]
    ELSE IF s > Len(advs[a].sections) THEN VectorDbLoop(advs, a + 1, 1, failAt, acc, entries)
    ELSE LET r == SectionGetChunks(advs[a], s, failAt, acc)
             new == [k \in 1..Len(r.chunks) |->
                       Entry(ChunkId(advs[a].filename, s - 1, k - 1), r.chunks[k].text,
                             advs[a].filename, s - 1)]
         IN IF r.err # NoError THEN [pass |-> r, entries |-> entries]
            ELSE VectorDbLoop(advs, a, s + 1, failAt, r, entries \o new)

\* mutant: the entries prepared before a failure are added all the same
BatchAdd_Partial(idx, r) == idx \o r.entries

\* self._collection.add(...) after the loops: not reached when a get_chunks
\* raised, and adding nothing when the batch is empty
BatchAdd(idx, r) == IF r.pass.err = NoError THEN idx \o r.entries ELSE idx

-----------------------------------------------------------------------------
(* Section.to_text *)

Repeat(c, n) == [k \in 1..n |-> c]

\* the parts one block adds
BlockParts(block) ==
    IF block.type = PARAGRAPH THEN <<Chars(block.content)>>
    ELSE IF block.type = CODE_BLOCK
       THEN <<Fence \o Chars(block.language) \o <<"\n">> \o Chars(block.content)
                \o <<"\n">> \o Fence>>
    ELSE IF block.type \in {LIST_ITEM, TABLE} THEN CharsOfAll(block.lines)
    ELSE <<>>

RECURSIVE BodyParts(_, _, _)
BodyParts(bs, idxs, k) ==
    IF k > Len(idxs) THEN <<>> ELSE BlockParts(bs[idxs[k]]) \o BodyParts(bs, idxs, k + 1)

\* Section.to_text(skip_header, skip_content) of section s of an advisory
ToText(adv, s, skip_header, skip_content) ==
    LET sec == adv.sections[s]
        h == adv.blocks[sec.header]
        head == IF skip_header THEN <<>>
                ELSE <<Repeat("#", h.level) \o <<" ">> \o Chars(h.content)>>
        body == IF skip_content THEN <<>> ELSE BodyParts(adv.blocks, sec.blocks, 1)
    IN JoinWith(head \o body, <<"\n", "\n">>)

-----------------------------------------------------------------------------
(* Operations on a constructed Advisories object *)

\* _parse_advisory of a document that passes the validator
Advisory(fname, bs) == [filename |-> fname, blocks |-> bs, sections |-> ExtractSections(bs)]

Loadable(fname, docs) == {Advisory(fname, bs) : bs \in {d \in docs : ValidateStructure(fname, d) = NoError}}

\* the objects the constructor builds: one or two advisories, in path order
InitChunks ==
    /\ pc = "loaded"
    /\ advisories \in
         {<<a>> : a \in Loadable("adv1.md", LoadableDocs)}
           \cup {<<a, b>> : a \in Loadable("adv1.md", LoadableDocs),
                            b \in Loadable("adv2.md", SecondDocs)}
    /\ model \in {"none", "model"}
    /\ chunks = <<>> /\ calls = <<>> /\ index = <<>> /\ arg = <<>> /\ ret = <<>>
    /\ filename = "" /\ lines = <<>> /\ i = 0 /\ blocks = <<>> /\ err = NoError
    /\ sections = <<>>
    /\ collection = "none" /\ ops = <<>> /\ history = <<>>

Op(name, a, s, skip_header, skip_content) ==
    [op |-> name, advisory |-> a, section |-> s,
     skip_header |-> skip_header, skip_content |-> skip_content]

\* the number of code blocks loaded: no more summarizer calls can be made
NumCodeBlocks ==
    Cardinality({<<a, k>> \in (1..Len(advisories)) \X (1..(MaxBody + 8)) :
                    k <= Len(advisories[a].blocks)
                    /\ advisories[a].blocks[k].type = CODE_BLOCK})

\* advisories[a].sections[s].get_chunks(model)
GetChunks ==
    /\ pc = "loaded"
    /\ \E a \in 1..Len(advisories) : \E s \in 1..Len(advisories[a].sections) :
       \E failAt \in 0..NumCodeBlocks :
         LET r == SectionGetChunks(advisories[a], s, failAt, NoPass)
         IN /\ arg' = Op("Section.get_chunks", a, s, FALSE, FALSE)
            /\ chunks' = IF r.err = NoError THEN r.chunks ELSE <<>>
            /\ calls' = r.calls
            /\ err' = r.err
    /\ pc' = "chunked"
    /\ UNCHANGED <<filename, lines, i, blocks, sections, advisories, model, index, ret,
                   collection, ops, history>>

\* advisories[a].get_chunks(model)
GetAdvisoryChunks ==
    /\ pc = "loaded"
    /\ \E a \in 1..Len(advisories) : \E failAt \in 0..NumCodeBlocks :
         LET r == AdvisoryGetChunks(advisories[a], failAt)
         IN /\ arg' = Op("_Advisory.get_chunks", a, 0, FALSE, FALSE)
            /\ chunks' = IF r.err = NoError THEN r.chunks ELSE <<>>
            /\ calls' = r.calls
            /\ err' = r.err
    /\ pc' = "advisory_chunked"
    /\ UNCHANGED <<filename, lines, i, blocks, sections, advisories, model, index, ret,
                   collection, ops, history>>

\* init_vectordb(model)
InitVectorDb ==
    /\ pc = "loaded"
    /\ \E failAt \in 0..NumCodeBlocks :
         LET r == VectorDbLoop(advisories, 1, 1, failAt, NoPass, <<>>)
         IN IF Len(index) > 0
               THEN UNCHANGED <<index, calls, err>>
               ELSE /\ index' = BatchAdd(index, r)
                    /\ calls' = r.pass.calls
                    /\ err' = r.pass.err
    /\ arg' = Op("init_vectordb", 0, 0, FALSE, FALSE)
    /\ collection' = "open"
    /\ pc' = "indexed"
    /\ UNCHANGED <<filename, lines, i, blocks, sections, advisories, model, chunks, ret,
                   ops, history>>

\* advisories[a].sections[s].to_text(skip_header, skip_content)
SectionToText ==
    /\ pc = "loaded"
    /\ \E a \in 1..Len(advisories) : \E s \in 1..Len(advisories[a].sections) :
       \E skip_header, skip_content \in BOOLEAN :
         /\ arg' = Op("Section.to_text", a, s, skip_header, skip_content)
         /\ ret' = ToText(advisories[a], s, skip_header, skip_content)
    /\ pc' = "rendered"
    /\ UNCHANGED <<filename, lines, i, blocks, err, sections, advisories, model, chunks,
                   calls, index, collection, ops, history>>

NextChunks == GetChunks \/ GetAdvisoryChunks \/ InitVectorDb \/ SectionToText

SpecChunks == InitChunks /\ [][NextChunks]_vars

-----------------------------------------------------------------------------
(* Properties of chunking.  In a state reached by an operation, arg names   *)
(* the operation and its advisory and section.                              *)

SectionChunked == pc = "chunked"
TheAdvisory == advisories[arg.advisory]
TheSection == TheAdvisory.sections[arg.section]

\* the positions within the section of its blocks of type t
BlocksOfType(adv, sec, t) == {k \in 1..Len(sec.blocks) : adv.blocks[sec.blocks[k]].type = t}

\* C12: chunking a section that holds a code block, with no model supplied,
\* fails with a configuration error before any block is processed: no
\* sentence is split, no row formatted, no summarizer call made, no chunk
\* returned.
C12_FailFastWithoutSummarizer ==
    (SectionChunked /\ model = "none"
        /\ BlocksOfType(TheAdvisory, TheSection, CODE_BLOCK) # {}) =>
            /\ err.kind = "ConfigurationError"
            /\ calls = <<>>
            /\ chunks = <<>>

\* the chunk texts one block gives, in order: its sentences, its rows as
\* text, or the summary of its code
TextsOfBlock(block) ==
    IF block.type \in {PARAGRAPH, LIST_ITEM} THEN SplitIntoSentences(Chars(block.content))
    ELSE IF block.type = TABLE THEN FormatTableBlock(block)
    ELSE IF block.type = CODE_BLOCK THEN <<Summarize(Chars(block.content))>>
    ELSE <<>>

\* the texts of the chunks of cs that come from block bi of section s
TextsFrom(cs, s, bi) ==
    LET sel == SelectSeq(cs, LAMBDA c : c.section = s /\ c.block = bi)
    IN [k \in 1..Len(sel) |-> sel[k].text]

\* the position of block bi in the section's block list
PosIn(sec, bi) == CHOOSE k \in 1..Len(sec.blocks) : sec.blocks[k] = bi

ChunksReturned == pc \in {"chunked", "advisory_chunked"} /\ err = NoError

\* the sections a returned chunk list covers
ChunkedSections ==
    IF pc = "chunked" THEN {arg.section} ELSE 1..Len(TheAdvisory.sections)

RECURSIVE ConcatSections(_, _)
ConcatSections(adv, s) ==
    IF s > Len(adv.sections) THEN <<>>
    ELSE SectionGetChunks(adv, s, 0, NoPass).chunks \o ConcatSections(adv, s + 1)

\* C13: a returned chunk list is in section order, then block order, then
\* sentence or row order within a block; every chunk names the section being
\* chunked, the block it came from and that block's type; the chunk list of
\* an advisory is the concatenation of its sections' chunk lists.
C13_ChunkOrder ==
    ChunksReturned =>
        LET adv == TheAdvisory
        IN /\ \A k \in 1..Len(chunks) :
                /\ chunks[k].section \in ChunkedSections
                /\ \E p \in 1..Len(adv.sections[chunks[k].section].blocks) :
                      adv.sections[chunks[k].section].blocks[p] = chunks[k].block
                /\ chunks[k].source_type = adv.blocks[chunks[k].block].type
           /\ \A j, k \in 1..Len(chunks) :
                j < k =>
                   \/ chunks[j].section < chunks[k].section
                   \/ /\ chunks[j].section = chunks[k].section
                      /\ PosIn(adv.sections[chunks[j].section], chunks[j].block)
                            <= PosIn(adv.sections[chunks[k].section], chunks[k].block)
           /\ \A s \in ChunkedSections :
                \A p \in 1..Len(adv.sections[s].blocks) :
                   LET bi == adv.sections[s].blocks[p]
                   IN TextsFrom(chunks, s, bi) = TextsOfBlock(adv.blocks[bi])
           /\ pc = "advisory_chunked" => chunks = ConcatSections(adv, 1)

\* an advisory's chunk list that spans three sections, one of them with a
\* two-sentence paragraph followed by a two-row table
C13_Witness ==
    /\ pc = "advisory_chunked"
    /\ err = NoError
    /\ Cardinality({chunks[k].section : k \in 1..Len(chunks)}) >= 3
    /\ \E j \in 1..(Len(chunks) - 3) :
        /\ chunks[j].source_type = PARAGRAPH
        /\ chunks[j + 1].source_type = PARAGRAPH
        /\ chunks[j + 1].block = chunks[j].block
        /\ chunks[j + 2].source_type = TABLE
        /\ chunks[j + 3].source_type = TABLE

\* the summarizer calls of the history, in order
SummarizerCalls == SelectSeq(calls, LAMBDA c : c.op = "summarize_code_snippet")

\* the code blocks of the section (positions in the advisory), in block order
CodeBlocksOf(adv, sec) ==
    SelectSeq(sec.blocks, LAMBDA bi : adv.blocks[bi].type = CODE_BLOCK)

\* C14: Section.get_chunks calls the summarizer only for code blocks, in
\* block order, once each, with the block's content; when it returns, every
\* code block of the section has been summarized and has exactly one chunk,
\* whose text is the summary returned for it.
C14_OneSummaryPerCodeBlock ==
    SectionChunked =>
        LET adv == TheAdvisory
            code == CodeBlocksOf(adv, TheSection)
            made == SummarizerCalls
        IN /\ Len(made) <= Len(code)
           /\ \A k \in 1..Len(made) :
                /\ made[k].block = code[k]
                /\ made[k].section = arg.section
                /\ made[k].text = Chars(adv.blocks[code[k]].content)
           /\ err = NoError =>
                /\ Len(made) = Len(code)
                /\ \A k \in 1..Len(code) :
                     TextsFrom(chunks, arg.section, code[k])
                        = <<Summarize(Chars(adv.blocks[code[k]].content))>>
                /\ \A k \in 1..Len(chunks) :
                     chunks[k].source_type = CODE_BLOCK
                        => \E j \in 1..Len(code) : code[j] = chunks[k].block

\* a section with two different code blocks, both summarized
C14_Witness ==
    /\ SectionChunked
    /\ err = NoError
    /\ Len(SummarizerCalls) = 2
    /\ SummarizerCalls[1].text # SummarizerCalls[2].text
    /\ \E k \in 1..Len(chunks) : chunks[k].source_type = PARAGRAPH

\* an operation that runs the summarizer has ended
ChunkingEnded == pc \in {"chunked", "advisory_chunked", "indexed"}

FailedCalls == {k \in 1..Len(calls) : ~calls[k].ok}

\* C15: when a summarizer call fails, its error comes out of
\* Section.get_chunks, _Advisory.get_chunks and init_vectordb unchanged; the
\* failing call is the last call made (no retry for the same block, no call
\* for a later one; within one advisory no earlier call was for that block
\* either), no chunk list is returned, and init_vectordb leaves the index
\* without any chunk of the run.
C15_SummarizerFailurePropagates ==
    ChunkingEnded =>
        /\ err \in {NoError, SummarizerError}
        /\ (err = SummarizerError) <=> (FailedCalls # {})
        /\ FailedCalls # {} =>
             /\ FailedCalls = {Len(calls)}
             /\ calls[Len(calls)].op = "summarize_code_snippet"
             /\ pc # "indexed" =>
                  \A k \in 1..(Len(calls) - 1) :
                     ~(calls[k].section = calls[Len(calls)].section
                         /\ calls[k].block = calls[Len(calls)].block)
             /\ chunks = <<>>
             /\ index = <<>>

\* init_vectordb fails at the second summarizer call, after sentences were
\* split and a first code block was summarized
C15_Witness ==
    /\ pc = "indexed"
    /\ err = SummarizerError
    /\ Len(SummarizerCalls) = 2
    /\ SummarizerCalls[1].ok
    /\ calls[1].op = "split_into_sentences"
    /\ index = <<>>

-----------------------------------------------------------------------------
(* format_table_block on its own: tables as the tokenizer emits them, every *)
(* row as wide as the header                                                *)

\* most columns and most data rows of a table handed to format_table_block
MaxCols == 2
MaxRows == 2

\* header cells: with upper-case letters and a space, plain, and empty
HeaderCells == {"Pkg Name", "Ver", "b", ""}

\* the cells the data rows are cut from
RowCatalogue == {<<"left pad", "1.0", "2">>, <<"b", "", "Pkg Name">>}

\* the first c cells of a catalogue row, the catalogue row repeated if need be
RowOfWidth(row, c) == [k \in 1..c |-> row[((k - 1) % Len(row)) + 1]]

TableOf(header, rows) == DocBlock(TABLE, "", NoneLevel, "", <<>>, header, rows)

InitFormat ==
    /\ pc = "table"
    /\ \E c \in 1..MaxCols : \E r \in 1..MaxRows :
       \E header \in [1..c -> HeaderCells] : \E picks \in [1..r -> RowCatalogue] :
          arg = TableOf(header, [k \in 1..r |-> RowOfWidth(picks[k], c)])
    /\ ret = <<>>
    /\ filename = "" /\ lines = <<>> /\ i = 0 /\ blocks = <<>> /\ err = NoError
    /\ sections = <<>> /\ advisories = <<>> /\ model = "none" /\ chunks = <<>>
    /\ calls = <<>> /\ index = <<>>
    /\ collection = "none" /\ ops = <<>> /\ history = <<>>

FormatTable ==
    /\ pc = "table"
    /\ ret' = FormatTableBlock(arg)
    /\ pc' = "formatted"
    /\ UNCHANGED <<filename, lines, i, blocks, err, sections, advisories, model,
                   chunks, calls, index, arg, collection, ops, history>>

NextFormat == FormatTable

SpecFormat == InitFormat /\ [][NextFormat]_vars

\* the character of the key for a character of the header
KeyChar(c) ==
    IF c = " " THEN "_"
    ELSE IF \E k \in 1..26 : UpperLetters[k] = c
       THEN LowerLetters[CHOOSE k \in 1..26 : UpperLetters[k] = c]
    ELSE c

\* the length of the pair of header h and value v: key, colon, space, and
\* the value between two quotes
PairLen(h, v) == Len(h) + Len(v) + 4

\* the number of characters of a row text before its i-th pair
RECURSIVE PairStart(_, _, _)
PairStart(hs, vs, k) ==
    IF k = 1 THEN 0 ELSE PairStart(hs, vs, k - 1) + PairLen(hs[k - 1], vs[k - 1]) + 2

\* text is the pairs of the headers hs and the values vs, one per column in
\* column order, a comma and a space between two pairs
IsRowText(text, hs, vs) ==
    LET n == Len(hs)
    IN /\ Len(vs) = n
       /\ Len(text) = PairStart(hs, vs, n) + PairLen(hs[n], vs[n])
       /\ \A k \in 1..n :
            LET at == PairStart(hs, vs, k)
                h == hs[k]
                v == vs[k]
            IN /\ \A j \in 1..Len(h) : text[at + j] = KeyChar(h[j])
               /\ text[at + Len(h) + 1] = ":"
               /\ text[at + Len(h) + 2] = " "
               /\ text[at + Len(h) + 3] = "\""
               /\ \A j \in 1..Len(v) : text[at + Len(h) + 3 + j] = v[j]
               /\ text[at + PairLen(h, v)] = "\""
               /\ k < n => /\ text[at + PairLen(h, v) + 1] = ","
                           /\ text[at + PairLen(h, v) + 2] = " "

\* C16: a table with k data rows gives k texts, one per data row in row
\* order; the text of a row holds one pair per column, in column order: the
\* header lower-cased with its spaces turned into underscores, a colon, and
\* the row's value in double quotes; the pairs are joined by commas (a comma
\* and a space).
C16_TableRowChunks ==
    pc = "formatted" =>
        /\ Len(ret) = Len(arg.rows)
        /\ \A r \in 1..Len(ret) :
             IsRowText(ret[r], CharsOfAll(arg.header), CharsOfAll(arg.rows[r]))

\* two columns, the first header with upper-case letters and a space, and two
\* different rows
C16_Witness ==
    /\ pc = "formatted"
    /\ Len(arg.header) = 2
    /\ arg.header[1] = "Pkg Name"
    /\ Len(ret) = 2
    /\ ret[1] # ret[2]

-----------------------------------------------------------------------------
(* The end-to-end scenario *)

\* the sections the scenario is to give: title, Executive Summary, Details
\* and Credits, each with the one paragraph after its header
ScenarioSections ==
    <<[header |-> 1, blocks |-> <<2>>], [header |-> 3, blocks |-> <<4>>],
      [header |-> 5, blocks |-> <<6>>], [header |-> 9, blocks |-> <<10>>]>>

-----------------------------------------------------------------------------
(* The entries init_vectordb hands to the index *)

\* the chunks of all sections of all advisories from section s of advisory a
\* on, each with its advisory, its section and its position in the section's
\* chunk list (all 1-based)
RECURSIVE ChunksFrom(_, _, _)
ChunksFrom(advs, a, s) ==
    IF a > Len(advs) THEN <<>>
    ELSE IF s > Len(advs[a].sections) THEN ChunksFrom(advs, a + 1, 1)
    ELSE LET cs == SectionGetChunks(advs[a], s, 0, NoPass).chunks
         IN [k \in 1..Len(cs) |->
               [advisory |-> a, section |-> s, k |-> k, text |-> cs[k].text]]
              \o ChunksFrom(advs, a, s + 1)

Indexed == pc = "indexed" /\ err = NoError

\* C19: after init_vectordb the index holds one entry for every chunk of
\* every section of every loaded advisory, the k-th chunk of a section being
\* the k-th chunk of that section's get_chunks; the entry's id is the
\* advisory's file name, the section index and the chunk's index in its
\* section (both 0-based) joined by underscores, its metadata carries that
\* file name and section index, and no two entries have the same id.
C19_ChunkIds ==
    Indexed =>
        LET all == ChunksFrom(advisories, 1, 1)
        IN /\ Len(index) = Len(all)
           /\ \A n \in 1..Len(index) :
                LET fname == advisories[all[n].advisory].filename
                IN /\ index[n].document = all[n].text
                   /\ index[n].metadata.advisory_filename = fname
                   /\ index[n].metadata.section_index = all[n].section - 1
                   /\ index[n].id =
                        Chars(fname) \o <<"_">> \o Str(all[n].section - 1)
                           \o <<"_">> \o Str(all[n].k - 1)
           /\ \A m, n \in 1..Len(index) : m # n => index[m].id # index[n].id

\* two advisories indexed, with a section of the second that has more than
\* one chunk
C19_Witness ==
    /\ Indexed
    /\ Len(advisories) = 2
    /\ \E m, n \in 1..Len(index) :
        /\ index[m].metadata.advisory_filename = "adv1.md"
        /\ index[n].metadata.advisory_filename = "adv2.md"
        /\ index[n].metadata.section_index = 2
        /\ index[n].id = Chars("adv2.md") \o <<"_", "2", "_", "1">>

-----------------------------------------------------------------------------
(* The rendering of a section *)

\* the rendering of one block as one piece of text, the raw lines of a list
\* item or of a table one below the other
BlockText(block) ==
    IF block.type \in {LIST_ITEM, TABLE} THEN JoinWith(CharsOfAll(block.lines), <<"\n">>)
    ELSE JoinWith(BlockParts(block), <<"\n">>)

HeaderLine(h) == Repeat("#", h.level) \o <<" ">> \o Chars(h.content)

\* C20: to_text gives the header line (as many # as the level, a space, the
\* content), then every block in block order, with a blank line between the
\* header line and the first block and between two blocks, and nowhere else:
\* the raw lines of one list item or table are not separated by blank lines;
\* skip_content leaves the header line alone, skip_header the body alone.
C20_ToTextBlankLinesBetweenBlocks ==
    pc = "rendered" =>
        LET adv == TheAdvisory
            sec == TheSection
            head == IF arg.skip_header THEN <<>> ELSE <<HeaderLine(adv.blocks[sec.header])>>
            body == IF arg.skip_content THEN <<>>
                    ELSE [k \in 1..Len(sec.blocks) |-> BlockText(adv.blocks[sec.blocks[k]])]
        IN ret = JoinWith(head \o body, <<"\n", "\n">>)

-----------------------------------------------------------------------------
(* The protocol of an Advisories object: the constructor, then              *)
(* init_vectordb and search in any order                                    *)

\* most init_vectordb calls made on one object
MaxInits == 2
\* most entries a query of the collection returns
MaxHits == 4
\* the largest distance of a returned entry
MaxDist == 2

TOP_K == 3

RuntimeError ==
    [kind |-> "RuntimeError", file |-> "",
     text |-> "Vector database not initialized. Call init_vectordb() first."]

\* the error of the collection when asked for zero results
QueryError == [kind |-> "QueryError", file |-> "", text |-> "n_results"]

\* a document whose title header is directly followed by a header
TitleLostBlocks ==
    <<DocTitle, DocDetails, DocSummary, DocSummaryText,
      DocRefs, DocRefItem, DocCredits, DocThanks>>

\* the directories the constructor reads: one, two or four files
Directories ==
    LET a1(bs) == Advisory("adv1.md", bs)
        a2 == Advisory("adv2.md", Framed(<<DocCode>>))
        a3(bs) == Advisory("adv3.md", bs)
        a4 == Advisory("adv4.md", Framed(<<>>))
        Firsts == {ScenarioBlocks, TitleLostBlocks}
        Thirds == {TitleLostBlocks, Framed(<<DocShell, DocTwoSentences>>)}
    IN {<<a1(f)>> : f \in Firsts} \cup {<<a1(f), a2>> : f \in Firsts}
         \cup {<<a1(ScenarioBlocks), a2, a3(t), a4>> : t \in Thirds}

\* the collection a complete build of the directory persists
BuiltIndex(advs) == BatchAdd(<<>>, VectorDbLoop(advs, 1, 1, 0, NoPass, <<>>))

\* the constructor: the advisories are loaded, no client and no collection;
\* the persist directory is empty or holds the collection of an earlier run
InitIndex ==
    /\ pc = "constructed"
    /\ advisories \in Directories
    /\ model = "model"
    /\ index \in {<<>>, BuiltIndex(advisories)}
    /\ collection = "none"
    /\ ops = <<>>
    /\ chunks = <<>> /\ calls = <<>> /\ arg = <<>> /\ ret = <<>> /\ history = <<>>
    /\ filename = "" /\ lines = <<>> /\ i = 0 /\ blocks = <<>> /\ err = NoError
    /\ sections = <<>>

\* a call of the object: the operation and, for a search, the entries the
\* collection answered the query with
Request(name, hits) == [op |-> name, hits |-> hits]

\* mutant: a populated collection is rebuilt all the same
Populated_Never(idx) == FALSE

\* self._collection.count() > 0
Populated(idx) == Len(idx) > 0

\* init_vectordb(model), on an object in any state: the collection is opened
\* before anything else, a populated one is left alone, an empty one is built
CallInitVectorDb ==
    /\ pc \in {"constructed", "ready"}
    /\ Len(SelectSeq(ops, LAMBDA o : o = "init_vectordb")) < MaxInits
    /\ collection' = "open"
    /\ \E failAt \in 0..NumCodeBlocks :
         LET r == VectorDbLoop(advisories, 1, 1, failAt, NoPass, <<>>)
         IN IF Populated(index)
               THEN /\ index' = index
                    /\ calls' = <<>>
                    /\ err' = NoError
               ELSE /\ index' = BatchAdd(index, r)
                    /\ calls' = r.pass.calls
                    /\ err' = r.pass.err
    /\ arg' = Request("init_vectordb", <<>>)
    /\ ops' = Append(ops, "init_vectordb")
    /\ ret' = <<>>
    /\ pc' = "ready"
    /\ UNCHANGED <<filename, lines, i, blocks, sections, advisories, model, chunks,
                   history>>

\* one entry of a query answer: its metadata and its distance
Hit(fname, section_idx, distance) ==
    [advisory_filename |-> fname, section_index |-> section_idx, distance |-> distance]

\* the (file, section) pairs the modelled queries match, when indexed
HitCatalogue ==
    {<<"adv1.md", 0>>, <<"adv1.md", 2>>, <<"adv2.md", 1>>,
     <<"adv3.md", 0>>, <<"adv4.md", 2>>}

\* the catalogue pairs that are metadata of an entry of the collection
Matchable(idx) ==
    {p \in HitCatalogue :
        \E k \in 1..Len(idx) : /\ idx[k].metadata.advisory_filename = p[1]
                               /\ idx[k].metadata.section_index = p[2]}

\* n_results=min(TOP_K * 10, self._collection.count()), on the model's scale
NResults(idx) == Min(Min(TOP_K * 10, MaxHits), Len(idx))

\* the answers of n entries: distinct entries, nearest first
RECURSIVE AnswersOfLength(_, _)
AnswersOfLength(idx, n) ==
    IF n = 0 THEN {<<>>}
    ELSE {Append(h, Hit(p[1], p[2], d)) :
            <<h, p, d>> \in
              {<<h, p, d>> \in AnswersOfLength(idx, n - 1) \X Matchable(idx) \X (1..MaxDist) :
                  /\ \A k \in 1..Len(h) :
                        ~(h[k].advisory_filename = p[1] /\ h[k].section_index = p[2])
                  /\ h # <<>> => h[Len(h)].distance <= d}}

\* self._collection.query(...): metadatas and distances, zipped
QueryResults(idx) == UNION {AnswersOfLength(idx, n) : n \in 1..NResults(idx)}

\* one value of advisory_matches: filename -> (best_distance, section indices)
Match(fname, best, indices) == [filename |-> fname, best |-> best, indices |-> indices]

\* the grouping loop; acc is the dict, in insertion order
RECURSIVE AdvisoryMatches(_, _, _)
AdvisoryMatches(hits, k, acc) ==
    IF k > Len(hits) THEN acc
    ELSE LET h == hits[k]
             pos == {p \in 1..Len(acc) : acc[p].filename = h.advisory_filename}
         IN IF pos = {}
               THEN AdvisoryMatches(hits, k + 1,
                       Append(acc, Match(h.advisory_filename, h.distance, {h.section_index})))
               ELSE LET p == CHOOSE q \in pos : TRUE
                        m == acc[p]
                        best == IF h.distance < m.best THEN h.distance ELSE m.best
                    IN AdvisoryMatches(hits, k + 1,
                          [acc EXCEPT ![p] = Match(m.filename, best,
                                                   m.indices \cup {h.section_index})])

\* sorted(items, key=best_distance): stable
RECURSIVE SortedByBest(_)
SortedByBest(ms) ==
    IF ms = <<>> THEN <<>>
    ELSE LET p == CHOOSE q \in 1..Len(ms) :
                     \A r \in 1..Len(ms) :
                        ms[q].best < ms[r].best \/ (ms[q].best = ms[r].best /\ q <= r)
         IN <<ms[p]>> \o SortedByBest(SubSeq(ms, 1, p - 1) \o SubSeq(ms, p + 1, Len(ms)))

\* [:TOP_K]
TopMatches(ms) == SubSeq(ms, 1, Min(TOP_K, Len(ms)))

\* sorted(section_indices)
RECURSIVE SortedIndices(_)
SortedIndices(S) ==
    IF S = {} THEN <<>>
    ELSE LET m == CHOOSE x \in S : \A y \in S : x <= y
         IN <<m>> \o SortedIndices(S \ {m})

\* self._advisories[filename]
AdvisoryNamed(advs, fname) == advs[CHOOSE a \in 1..Len(advs) : advs[a].filename = fname]

\* the parts of the sections of sorted_indices from position k on
RECURSIVE SectionParts(_, _, _)
SectionParts(adv, sorted, k) ==
    IF k > Len(sorted) THEN <<>>
    ELSE LET section_text == ToText(adv, sorted[k] + 1, FALSE, FALSE)
         IN (IF Strip(section_text) # <<>> THEN <<section_text, <<>>>> ELSE <<>>)
               \o SectionParts(adv, sorted, k + 1)

\* the string of one matched advisory: index 1 is added, the header of
\* section 0 goes first when section 0 is not matched
ResultText(adv, indices) ==
    LET sorted == SortedIndices(indices \cup {1})
        title == IF sorted[1] # 0 THEN <<ToText(adv, 1, FALSE, TRUE), <<>>>> ELSE <<>>
    IN JoinWith(title \o SectionParts(adv, sorted, 1), <<"\n">>)

\* the body of search() once the collection has answered
SearchResults(advs, hits) ==
    LET sorted_matches == TopMatches(SortedByBest(AdvisoryMatches(hits, 1, <<>>)))
    IN [k \in 1..Len(sorted_matches) |->
          ResultText(AdvisoryNamed(advs, sorted_matches[k].filename),
                     sorted_matches[k].indices)]

\* mutant: a search before init_vectordb goes on to the collection
NotInitialized_Never(coll) == FALSE

\* self._collection is None
NotInitialized(coll) == coll = "none"

\* search(query), on an object in any state.  What the collection does when
\* asked for zero results is not in the source: it answers nothing or raises.
Search ==
    /\ pc \in {"constructed", "ready"}
    /\ IF NotInitialized(collection)
          THEN /\ arg' = Request("search", <<>>)
               /\ ret' = <<>>
               /\ err' = RuntimeError
          ELSE IF NResults(index) = 0
          THEN /\ arg' = Request("search", <<>>)
               /\ ret' = <<>>
               /\ err' \in {NoError, QueryError}
          ELSE \E hits \in QueryResults(index) :
                 /\ arg' = Request("search", hits)
                 /\ ret' = SearchResults(advisories, hits)
                 /\ err' = NoError
    /\ ops' = Append(ops, "search")
    /\ calls' = <<>>
    /\ pc' = "searched"
    /\ UNCHANGED <<filename, lines, i, blocks, sections, advisories, model, chunks,
                   index, collection, history>>

NextIndex == CallInitVectorDb \/ Search

SpecIndex == InitIndex /\ [][NextIndex]_vars

-----------------------------------------------------------------------------
(* Properties of the protocol *)

InitCalls == SelectSeq(ops, LAMBDA o : o = "init_vectordb")
Searched == pc = "searched"

\* C21: search raises RuntimeError, and returns no result, in every state
\* reached without a call of init_vectordb, whatever the constructor loaded
\* and whatever the persist directory holds
C21_SearchBeforeInitRaises ==
    (Searched /\ InitCalls = <<>>) => (err = RuntimeError /\ ret = <<>>)

\* a search as the first call on an object with advisories loaded and a
\* collection persisted by an earlier run
C21_Witness ==
    /\ Searched
    /\ ops = <<"search">>
    /\ advisories # <<>>
    /\ Len(index) > 0
    /\ err = RuntimeError

InitStep == ops' = Append(ops, "init_vectordb")

\* C22: init_vectordb on a collection that holds at least one chunk adds no
\* chunk, changes no stored chunk and makes no summarizer call, and no later
\* call of any operation changes a populated collection
C22_InitVectorDbIdempotent ==
    [][Len(index) > 0 =>
         /\ index' = index
         /\ InitStep =>
              /\ err' = NoError
              /\ \A k \in 1..Len(calls') : calls'[k].op # "summarize_code_snippet"]_vars

\* a second init_vectordb on the collection the first one built from a
\* directory with a code block
C22_Witness ==
    /\ pc = "ready"
    /\ ops = <<"init_vectordb", "init_vectordb">>
    /\ NumCodeBlocks > 0
    /\ index = BuiltIndex(advisories)
    /\ calls = <<>>
    /\ err = NoError

\* the positions at which pat occurs in text
Occurrences(text, pat) ==
    {p \in 1..(Len(text) - Len(pat) + 1) : SubSeq(text, p, p + Len(pat) - 1) = pat}

\* the positions at which pat occurs in text as whole lines
LineOccurrences(text, pat) ==
    {p \in Occurrences(text, pat) :
        /\ p = 1 \/ text[p - 1] = "\n"
        /\ p + Len(pat) - 1 = Len(text) \/ text[p + Len(pat)] = "\n"}

HitFiles(hits) == {hits[k].advisory_filename : k \in 1..Len(hits)}
MatchedSections(hits, f) ==
    {hits[k].section_index : k \in {j \in 1..Len(hits) : hits[j].advisory_filename = f}}
BestDistance(hits, f) ==
    LET ds == {hits[k].distance : k \in {j \in 1..Len(hits) : hits[j].advisory_filename = f}}
    IN CHOOSE d \in ds : \A e \in ds : d <= e

\* the title header line of an advisory: its first block is the title
TitleLine(adv) == <<"#", " ">> \o Chars(adv.blocks[1].content)

\* the section of an advisory headed Executive Summary, as rendered
SummarySectionText(adv) ==
    LET s == CHOOSE k \in 1..Len(adv.sections) :
                adv.blocks[adv.sections[k].header].content = "Executive Summary"
    IN ToText(adv, s, FALSE, FALSE)

\* text renders adv for the matched sections: the title line once, the
\* summary section once, every matched section once, in index order
RendersMatch(text, adv, matched) ==
    /\ Cardinality(LineOccurrences(text, TitleLine(adv))) = 1
    /\ Cardinality(Occurrences(text, SummarySectionText(adv))) = 1
    /\ \A s \in matched :
          Cardinality(Occurrences(text, ToText(adv, s + 1, FALSE, FALSE))) = 1
    /\ \A s, t \in matched :
          s < t => \A p \in Occurrences(text, ToText(adv, s + 1, FALSE, FALSE)) :
                   \A q \in Occurrences(text, ToText(adv, t + 1, FALSE, FALSE)) : p < q

\* the strings of ret are for the files fs, in this order
ResultsFor(hits, fs) ==
    /\ \A k, l \in 1..Len(fs) : k < l =>
          /\ fs[k] # fs[l]
          /\ BestDistance(hits, fs[k]) <= BestDistance(hits, fs[l])
    /\ \A k \in 1..Len(fs) : \A g \in HitFiles(hits) \ {fs[j] : j \in 1..Len(fs)} :
          BestDistance(hits, fs[k]) <= BestDistance(hits, g)
    /\ \A k \in 1..Len(fs) :
          RendersMatch(ret[k], AdvisoryNamed(advisories, fs[k]), MatchedSections(hits, fs[k]))

\* C23: a search that returns yields at most 3 strings, one per distinct
\* matching advisory, nearest advisory first; each string holds the title
\* header line of its advisory, its Executive Summary section and every
\* matched section exactly once, in ascending section order
C23_SearchResults ==
    (Searched /\ err = NoError /\ collection = "open") =>
        /\ Len(ret) <= 3
        /\ Len(ret) = Min(3, Cardinality(HitFiles(arg.hits)))
        /\ \E fs \in [1..Len(ret) -> HitFiles(arg.hits)] : ResultsFor(arg.hits, fs)

-----------------------------------------------------------------------------
(* router.py: Router.route on one response of the model *)

\* a JSON value of the response object; a key the object lacks is absent
Json(t, v) == [t |-> t, v |-> v]
JsonAbsent == Json("absent", <<>>)
JsonNull == Json("null", <<>>)
JsonString(cs) == Json("string", cs)
JsonNumber(cs) == Json("number", cs)
JsonList(items) == Json("list", items)

\* bool(x)
Truthy(x) ==
    IF x.t \in {"absent", "null"} THEN FALSE
    ELSE IF x.t = "number" THEN x.v # <<"0">>
    ELSE x.v # <<>>

\* dict.get(key, default)
Get(x, default) == IF x.t = "absent" THEN default ELSE x

\* the keys of route_type_map
RouteTypeKeys ==
    <<<<"u", "n", "s", "t", "r", "u", "c", "t", "u", "r", "e", "d">>,
      <<"s", "t", "r", "u", "c", "t", "u", "r", "e", "d">>,
      <<"h", "y", "b", "r", "i", "d">>,
      <<"n", "o", "n", "e">>>>

\* RouteType, by the position of its key
RouteTypes == <<"UNSTRUCTURED", "STRUCTURED", "HYBRID", "NONE">>

\* str.lower()
Lower(cs) == [k \in 1..Len(cs) |-> ToLower(cs[k])]

\* the responses of the model: text without an object, braces around text
\* that is no JSON, and an object with any of the four keys
Response(shape, route_type, unstructured_query, structured_query, reasoning) ==
    [shape |-> shape, route_type |-> route_type,
     unstructured_query |-> unstructured_query,
     structured_query |-> structured_query, reasoning |-> reasoning]

QueryValues ==
    {JsonAbsent, JsonNull, JsonString(<<>>), JsonString(<<"q">>),
     JsonNumber(<<"4", "2">>), JsonNumber(<<"0">>), JsonList(<<"q">>)}

ReasoningValues ==
    {JsonAbsent, JsonNull, JsonString(<<>>), JsonString(<<"r">>), JsonNumber(<<"7">>)}

RouteTypeValues ==
    {JsonAbsent, JsonNull, JsonNumber(<<"1">>), JsonString(<<>>),
     JsonString(<<"H", "y", "b", "r", "i", "d">>), JsonString(<<"s", "q", "l">>)}
      \cup {JsonString(RouteTypeKeys[k]) : k \in 1..4}

Responses ==
    {Response(s, JsonAbsent, JsonAbsent, JsonAbsent, JsonAbsent) : s \in {"no_braces", "invalid_json"}}
      \cup {Response("object", t, u, s, r) :
              t \in RouteTypeValues, u \in QueryValues, s \in QueryValues, r \in ReasoningValues}

RouteValidationError(text) == [kind |-> "RouteValidationError", file |-> "", text |-> text]

RouteResult(route_type, unstructured_query, structured_query, reasoning) ==
    [route_type |-> route_type, unstructured_query |-> unstructured_query,
     structured_query |-> structured_query, reasoning |-> reasoning]

\* no RouteResult: the call raised
NoResult == RouteResult("", JsonAbsent, JsonAbsent, JsonAbsent)

Parsed(e, result) == [err |-> e, result |-> result]

\* Router._parse_response
ParseResponse(response) ==
    IF response.shape = "no_braces"
       THEN Parsed(RouteValidationError("No JSON object found in response"), NoResult)
    ELSE IF response.shape = "invalid_json"
       THEN Parsed(RouteValidationError("Invalid JSON"), NoResult)
    ELSE IF response.route_type.t = "absent"
       THEN Parsed(RouteValidationError("Missing required field: route_type"), NoResult)
    ELSE IF response.route_type.t # "string"
       THEN Parsed(RouteValidationError("route_type must be a string"), NoResult)
    ELSE LET keys == {k \in 1..4 : RouteTypeKeys[k] = Lower(response.route_type.v)}
         IN IF keys = {}
               THEN Parsed(RouteValidationError("Unknown route_type"), NoResult)
               ELSE Parsed(NoError,
                      RouteResult(RouteTypes[CHOOSE k \in keys : TRUE],
                                  Get(response.unstructured_query, JsonNull),
                                  Get(response.structured_query, JsonNull),
                                  Get(response.reasoning, JsonString(<<>>))))

\* x is not None
NotNone(x) == x.t # "null"

\* the test of a required query field: not falsy
RequiredString(x) == Truthy(x)

\* Router._validate_result: the first report raised, or NoError
ValidateResult(result) ==
    IF ~Truthy(result.reasoning) THEN RouteValidationError("reasoning is required")
    ELSE IF result.route_type = "NONE" THEN
        IF NotNone(result.unstructured_query)
           THEN RouteValidationError("unstructured_query must be null when route_type is 'none'")
        ELSE IF NotNone(result.structured_query)
           THEN RouteValidationError("structured_query must be null when route_type is 'none'")
        ELSE NoError
    ELSE IF result.route_type = "UNSTRUCTURED" THEN
        IF ~RequiredString(result.unstructured_query)
           THEN RouteValidationError("unstructured_query is required when route_type is 'unstructured'")
        ELSE IF NotNone(result.structured_query)
           THEN RouteValidationError("structured_query must be null when route_type is 'unstructured'")
        ELSE NoError
    ELSE IF result.route_type = "STRUCTURED" THEN
        IF NotNone(result.unstructured_query)
           THEN RouteValidationError("unstructured_query must be null when route_type is 'structured'")
        ELSE IF ~RequiredString(result.structured_query)
           THEN RouteValidationError("structured_query is required when route_type is 'structured'")
        ELSE NoError
    ELSE IF result.route_type = "HYBRID" THEN
        IF ~RequiredString(result.unstructured_query)
           THEN RouteValidationError("unstructured_query is required when route_type is 'hybrid'")
        ELSE IF ~RequiredString(result.structured_query)
           THEN RouteValidationError("structured_query is required when route_type is 'hybrid'")
        ELSE NoError
    ELSE NoError

\* a router and the response its model will give to the next prompt
InitRoute ==
    /\ pc = "route"
    /\ model \in {"none", "model"}
    /\ arg \in Responses
    /\ ret = NoResult
    /\ err = NoError
    /\ filename = "" /\ lines = <<>> /\ i = 0 /\ blocks = <<>> /\ sections = <<>>
    /\ advisories = <<>> /\ chunks = <<>> /\ calls = <<>> /\ index = <<>>
    /\ collection = "none" /\ ops = <<>> /\ history = <<>>

\* Router.route(query)
Route ==
    /\ pc = "route"
    /\ IF model = "none"
          THEN /\ err' = ValueError("", "No model available: none provided and no default set")
               /\ ret' = NoResult
          ELSE LET parsed == ParseResponse(arg)
                   invalid == ValidateResult(parsed.result)
               IN IF parsed.err # NoError
                     THEN err' = parsed.err /\ ret' = NoResult
                  ELSE IF invalid # NoError
                     THEN err' = invalid /\ ret' = NoResult
                  ELSE err' = NoError /\ ret' = parsed.result
    /\ pc' = "routed"
    /\ UNCHANGED <<filename, lines, i, blocks, sections, advisories, model, chunks,
                   calls, index, arg, collection, ops, history>>

NextRoute == Route

SpecRoute == InitRoute /\ [][NextRoute]_vars

Routed == pc = "routed" /\ model = "model"

NonEmptyString(x) == x.t = "string" /\ x.v # <<>>

\* the field table of the prompt
FieldTable(result) ==
    /\ result.route_type \in {"UNSTRUCTURED", "STRUCTURED", "HYBRID", "NONE"}
    /\ result.route_type = "UNSTRUCTURED" =>
          NonEmptyString(result.unstructured_query) /\ result.structured_query = JsonNull
    /\ result.route_type = "STRUCTURED" =>
          result.unstructured_query = JsonNull /\ NonEmptyString(result.structured_query)
    /\ result.route_type = "HYBRID" =>
          NonEmptyString(result.unstructured_query) /\ NonEmptyString(result.structured_query)
    /\ result.route_type = "NONE" =>
          result.unstructured_query = JsonNull /\ result.structured_query = JsonNull
    /\ Truthy(result.reasoning)

\* C24: route returns a RouteResult only if it satisfies the field table of
\* the prompt, with a non-empty reasoning, and raises RouteValidationError
\* for every other response of the model
C24_RouteResultSatisfiesTable ==
    Routed =>
        /\ err = NoError => FieldTable(ret)
        /\ err # NoError => err.kind = "RouteValidationError" /\ ret = NoResult

-----------------------------------------------------------------------------
(* database_rag.py: DatabaseRag.query, one action for each model call *)

\* largest max_iterations a query is started with
MaxIterations == 3

\* what _parse_response makes of a response: None, a dict with an answer, a
\* dict with a tool and no answer, a dict with neither
ResponseKinds == {"unparsable", "answer", "tool", "other"}

\* the handlers of Database.call_tool, and a name that is none of them
Handlers == {"get_vulnerability", "search_vulnerabilities", "list_packages", "get_statistics"}
ToolNames == {"get_statistics", "drop_table"}

\* parsed.get("arguments", {}): an object, or the null the response gave
ToolArguments == {"dict", "null"}

\* Database.call_tool(name, arguments): the result, ValueError for an unknown
\* name, AttributeError when a handler calls .get on arguments that are null
CallTool(name, arguments) ==
    IF name \notin Handlers THEN "ValueError"
    ELSE IF arguments # "dict" THEN "AttributeError"
    ELSE "ok"

\* one call made by the query
Invocation(op, outcome) == [op |-> op, outcome |-> outcome]

\* one entry of history
HistoryLine(kind, tool, arguments) == [kind |-> kind, tool |-> tool, arguments |-> arguments]

ForceLine == HistoryLine("FORCE", "", "")

ToolError(kind) == [kind |-> kind, file |-> "", text |-> "call_tool"]

\* mutant: no exception of call_tool is caught
Caught_Nothing(outcome) == FALSE

\* except ValueError
Caught(outcome) == outcome = "ValueError"

\* for i in range(max_iterations)
LoopContinues(k, max_iterations) == k < max_iterations

\* query(structured_query, max_iterations) has been called
InitQuery ==
    /\ pc = "loop"
    /\ arg \in {[max_iterations |-> m] : m \in 0..MaxIterations}
    /\ i = 0
    /\ history = <<>>
    /\ calls = <<>>
    /\ ret = ""
    /\ err = NoError
    /\ model = "model"
    /\ filename = "" /\ lines = <<>> /\ blocks = <<>> /\ sections = <<>>
    /\ advisories = <<>> /\ chunks = <<>> /\ index = <<>>
    /\ collection = "none" /\ ops = <<>>

\* one iteration of the loop: a model call, then the branch its response takes
Iterate ==
    /\ pc = "loop"
    /\ LoopContinues(i, arg.max_iterations)
    /\ \E response \in ResponseKinds : \E tool \in ToolNames : \E arguments \in ToolArguments :
         LET outcome == CallTool(tool, arguments)
             generate == Invocation("generate", "ok")
         IN IF response = "unparsable"
               THEN /\ ret' = "response.strip()" /\ pc' = "done"
                    /\ calls' = Append(calls, generate)
                    /\ UNCHANGED <<i, history, err>>
            ELSE IF response = "answer"
               THEN /\ ret' = "parsed[answer]" /\ pc' = "done"
                    /\ calls' = Append(calls, generate)
                    /\ UNCHANGED <<i, history, err>>
            ELSE IF response = "tool"
               THEN /\ calls' = calls \o <<generate, Invocation("call_tool", outcome)>>
                    /\ IF outcome = "ok"
                          THEN /\ history' = history \o <<HistoryLine("TOOL CALL", tool, arguments),
                                                          HistoryLine("RESULT", tool, arguments)>>
                               /\ i' = i + 1
                               /\ UNCHANGED <<pc, ret, err>>
                       ELSE IF Caught(outcome)
                          THEN /\ history' = history \o <<HistoryLine("TOOL CALL", tool, arguments),
                                                          HistoryLine("ERROR", tool, arguments)>>
                               /\ i' = i + 1
                               /\ UNCHANGED <<pc, ret, err>>
                       ELSE /\ err' = ToolError(outcome)
                            /\ pc' = "done"
                            /\ UNCHANGED <<i, history, ret>>
            ELSE /\ calls' = Append(calls, generate)
                 /\ i' = i + 1
                 /\ UNCHANGED <<pc, history, ret, err>>
    /\ UNCHANGED <<filename, lines, blocks, sections, advisories, model, chunks, index,
                   arg, collection, ops>>

\* after the loop: the model is asked once more and its response is the answer
ForceAnswer ==
    /\ pc = "loop"
    /\ ~LoopContinues(i, arg.max_iterations)
    /\ history' = Append(history, ForceLine)
    /\ calls' = Append(calls, Invocation("generate", "ok"))
    /\ \E response \in ResponseKinds :
         ret' = IF response = "answer" THEN "parsed[answer]" ELSE "response.strip()"
    /\ pc' = "done"
    /\ UNCHANGED <<filename, lines, i, blocks, err, sections, advisories, model, chunks,
                   index, arg, collection, ops>>

NextQuery == Iterate \/ ForceAnswer

SpecQuery == InitQuery /\ [][NextQuery]_vars

\* the query is sequential code: while it has not returned, its next step is taken
SpecQueryFair == SpecQuery /\ WF_vars(NextQuery)

ModelCalls == SelectSeq(calls, LAMBDA c : c.op = "generate")
ToolCalls == SelectSeq(calls, LAMBDA c : c.op = "call_tool")
ErrorLines == SelectSeq(history, LAMBDA h : h.kind = "ERROR")
QueryDone == pc = "done"
Answered == QueryDone /\ err = NoError

\* at most max_iterations tool calls and max_iterations + 1 model calls
QueryBounds ==
    /\ Len(ToolCalls) <= arg.max_iterations
    /\ Len(ModelCalls) <= arg.max_iterations + 1

\* every tool call that raised ValueError has its ERROR line in history, and
\* the query went on to another model call or is about to
ValueErrorRecorded ==
    /\ Len(ErrorLines) = Len(SelectSeq(ToolCalls, LAMBDA c : c.outcome = "ValueError"))
    /\ \A k \in 1..Len(calls) :
          (calls[k].op = "call_tool" /\ calls[k].outcome = "ValueError") =>
              IF k = Len(calls) THEN ~QueryDone ELSE calls[k + 1].op = "generate"
    /\ err.kind # "ValueError"

\* C25: query terminates for every sequence of model responses, having made
\* at most max_iterations tool calls and at most max_iterations + 1 model
\* calls; a tool call that fails with ValueError is recorded in history and
\* the loop continues
C25_QueryTerminates ==
    /\ [](QueryBounds /\ ValueErrorRecorded)
    /\ <>QueryDone

\* every iteration called a tool, one of them failed with ValueError before
\* the last one, and the forced model call gave the answer
C25_Witness ==
    /\ Answered
    /\ arg.max_iterations = MaxIterations
    /\ Len(ToolCalls) = arg.max_iterations
    /\ Len(ModelCalls) = arg.max_iterations + 1
    /\ ToolCalls[1].outcome = "ValueError"
    /\ history[Len(history)] = ForceLine

-----------------------------------------------------------------------------
(* Properties of the main loop and of the paragraph and list parsers *)

\* C26: every iteration of the main loop advances the cursor by at least one
\* line, whatever the current line is, so that the tokenizer terminates on
\* every finite input
C26_CursorAdvances ==
    [][(InLoop /\ pc' = "loop") => i' > i]_vars

\* the validator has run on blocks
Judged == pc \in {"validated", "extracted", "rejected"}

\* C27: the result of _validate_structure does not depend on blocks[1]: with
\* any other block at index 1 the sequence is accepted as well, or rejected
\* with the same error
C27_IndependentOfSecondBlock ==
    (Judged /\ Len(blocks) >= 2) =>
        \A b \in BlockUniverse :
            ValidateStructure(filename, [blocks EXCEPT ![2] = b]) = err

\* the main loop, standing at the line with 0-based index k, would take a
\* branch other than the paragraph's
StartsOtherBlock(ls, k) ==
    LET s == Strip(ls[k + 1])
    IN /\ s # <<>>
       /\ \/ StartsWith(s, Fence)
          \/ StartsWith(s, <<"#">>) /\ ParseHeader(s).ok
          \/ IsTableLine(s) /\ k + 1 < Len(ls) /\ IsTableSeparator(ls[k + 2])
          \/ IsListItem(ls[k + 1])

Paragraphs == {n \in 1..Len(blocks) : blocks[n].type = PARAGRAPH /\ blocks[n].lines # <<>>}

\* C28: a paragraph takes no line the main loop would start another block
\* at, an indented header or table start included, and it ends at the end of
\* the input, at a blank line or at a line that starts another block
C28_ParagraphBoundaries ==
    \A n \in Paragraphs :
        LET b == blocks[n]
        IN /\ \A k \in (b.first + 1)..b.last : ~StartsOtherBlock(lines, k)
           /\ b.last + 1 < Len(lines) =>
                 \/ Strip(lines[b.last + 2]) = <<>>
                 \/ StartsOtherBlock(lines, b.last + 1)

\* the main loop stands at the first line of a list and _parse_list runs
ListStep ==
    /\ InLoop /\ Stripped # <<>>
    /\ ~AtFence /\ ~AtHeader /\ ~AtTable /\ AtList
    /\ i' > i

\* the line with 0-based index k is blank and not inside a fence
BlankOutsideFence(k) ==
    /\ k < Len(lines)
    /\ Strip(lines[k + 1]) = <<>>
    /\ ~InsideFence(FenceLines(lines), k + 1)

\* the line after the line with 0-based index k is a list-item line
ItemFollows(k) == k + 1 < Len(lines) /\ IsListItem(lines[k + 2])

\* the line with 0-based index k is text that starts no block but a paragraph
PlainText(k) ==
    /\ Strip(lines[k + 1]) # <<>>
    /\ ~StartsOtherBlock(lines, k)
    /\ ~InsideFence(FenceLines(lines), k + 1)

\* C29: a list runs over a blank line exactly when the line after it is a
\* list-item line, and ends at the blank line otherwise: two blank lines end
\* the list, and text after a blank line, indented or not, starts a Paragraph
\* of its own
C29_BlankLineInList ==
    /\ [][ListStep =>
            /\ \A k \in i..(i' - 1) : BlankOutsideFence(k) => ItemFollows(k)
            /\ BlankOutsideFence(i') => ~ItemFollows(i')]_vars
    /\ [](Returned =>
            \A k \in 1..(Len(lines) - 1) :
                (BlankOutsideFence(k - 1) /\ PlainText(k)) =>
                    \E n \in 1..Len(blocks) :
                        blocks[n].type = PARAGRAPH /\ blocks[n].first = k)

\* a list item, a blank line, then indented text: the list ended at the blank
\* line and the text is a Paragraph
C29_Witness ==
    /\ pc = "done"
    /\ \E n \in 1..(Len(blocks) - 1) :
          /\ blocks[n].type = LIST_ITEM
          /\ blocks[n + 1].type = PARAGRAPH
          /\ blocks[n + 1].first = blocks[n].last + 2
          /\ lines[blocks[n].last + 2] = <<>>
          /\ GetIndent(lines[blocks[n + 1].first + 1]) > 0

\* a ListItem directly followed, in blocks and in the source, by a CodeBlock:
\* a fence inside a list
FencedItems ==
    {n \in 1..(Len(blocks) - 1) :
        /\ blocks[n].type = LIST_ITEM
        /\ blocks[n + 1].type = CODE_BLOCK
        /\ blocks[n + 1].first = blocks[n].last + 1}

\* the source line k (0-based) lies in a CodeBlock or in a Table
InCodeOrTable(k) ==
    \E m \in 1..Len(blocks) :
        /\ blocks[m].type \in {CODE_BLOCK, TABLE}
        /\ blocks[m].first <= k
        /\ k <= blocks[m].last

\* the CodeBlocks whose fence comes right after a list-item line
FencesAfterItem ==
    {n \in 1..Len(blocks) :
        /\ blocks[n].type = CODE_BLOCK
        /\ blocks[n].first >= 1
        /\ IsListItem(lines[blocks[n].first])
        /\ ~InCodeOrTable(blocks[n].first - 1)}

\* the marker-stripped text of the source lines k..l (0-based)
ItemLines(k, l) == [j \in 1..(l - k + 1) |-> CheckIfListItemLine(lines[k + j]).content]

\* the list goes on at the line with 0-based index k: a list-item line, or a
\* line indented more than the list
ListGoesOn(k, base_indent) ==
    /\ k < Len(lines)
    /\ Strip(lines[k + 1]) # <<>>
    /\ ~IsFenceLine(lines[k + 1])
    /\ IsListItem(lines[k + 1]) \/ GetIndent(lines[k + 1]) > base_indent

\* C30: at a fence inside a list the item read so far is emitted as a
\* ListItem before the CodeBlock, with all its text; the fence contents are a
\* CodeBlock of their own; the list goes on after the closing fence; blocks
\* come in source-line order and no ListItem reaches across a fence
C30_FenceInsideList ==
    /\ \A n \in 1..(Len(blocks) - 1) : blocks[n].last < blocks[n + 1].first
    /\ \A n \in 1..Len(blocks) :
          blocks[n].type = LIST_ITEM =>
              /\ blocks[n].lines = ItemLines(blocks[n].first, blocks[n].last)
              /\ blocks[n].content = JoinWith(blocks[n].lines, <<" ">>)
              /\ \A k \in blocks[n].first..blocks[n].last : ~IsFenceLine(lines[k + 1])
    /\ \A n \in FencesAfterItem : n - 1 \in FencedItems
    /\ \A n \in FencedItems :
          LET item == blocks[n]
              code == blocks[n + 1]
              fl == FenceLines(lines)
              c == ClosingFence(fl, code.first + 1, Len(lines))
          IN /\ OpensFence(fl, code.first + 1)
             /\ code.last = Min(c, Len(lines)) - 1
             /\ Len(code.lines) = c - code.first - 2
             /\ ListGoesOn(code.last + 1, item.level) =>
                   /\ n + 2 <= Len(blocks)
                   /\ blocks[n + 2].type = LIST_ITEM
                   /\ blocks[n + 2].first = code.last + 1
                   /\ blocks[n + 2].level = item.level

\* an item, a fenced block and, after the closing fence, indented text that
\* is the next ListItem of the same list
C30_Witness ==
    /\ pc = "done"
    /\ \E n \in FencedItems :
          /\ n + 2 <= Len(blocks)
          /\ blocks[n + 2].type = LIST_ITEM
          /\ blocks[n + 2].first = blocks[n + 1].last + 1
          /\ ~IsListItem(lines[blocks[n + 2].first + 1])

=============================================================================
